---- MODULE Spec2Model ----
(***************************************************************************)
(* A model of the rustnes execution engine: the interrupt latch, the CPU   *)
(* as the scheduler sees it (status byte and cycle counter), the PPU scan  *)
(* loop with its status/controller/mask registers, and the NES scheduler   *)
(* that drives one CPU step and then three PPU dots per CPU cycle.         *)
(*                                                                         *)
(* The specifications share the variables:                                 *)
(*   Spec      the scheduler: the host calls reset and frame, and frame    *)
(*             loops over NES::step;                                       *)
(*   SpecPoll  NES::cpu_step applied to every value of the interrupt latch *)
(*             and several status bytes;                                   *)
(*   SpecPPU   the PPU alone, one action per dot, with register writes and *)
(*             reset between dots.                                         *)
(*   SpecReg   the PPU register file read and written around the start of  *)
(*             vertical blanking;                                          *)
(*   SpecBus   CPUBus reads and writes over work RAM and the PPU ports;    *)
(*   SpecCPU   the CPU on a flat memory: interrupt entries and the stack   *)
(*             instructions from every status byte;                        *)
(*   SpecStack pushes followed by pulls from every stack pointer.          *)
(***************************************************************************)
EXTENDS Integers, Sequences, FiniteSets, TLC

\* ------------------------------------------------------------------ bounds

\* number of NES::frame calls the host makes in Spec
MaxCalls == 1
\* number of NES::cpu_step calls in SpecPoll
MaxPolls == 4
\* value of the PPU frame counter at which SpecPPU stops stepping
MaxFrames == 1
\* number of register reads and writes made in SpecReg
MaxRegOps == 4
\* dot of line 241 at which SpecReg stops stepping
MaxRegDot == 3
\* number of CPU-bus reads and writes made in SpecBus
MaxBusOps == 3
\* number of CPU operations made in SpecCPU
MaxCpuOps == 2
\* number of bytes SpecStack pushes from the stack pointers of DeepStacks, and
\* from the others
MaxPushes == 256
MaxShortPushes == 2
MaxVramOps == 4
MaxCallSteps == 2
MaxPixelSteps == 380
MaxAddrOps == 5
MaxAddrSteps == 2
MaxScrollSteps == 26
\* number of PPU-bus writes made in SpecNameTable
MaxNameTableWrites == 2

\* ------------------------------------------------- u8 / u16 bit operations

RECURSIVE BitAnd(_, _)
BitAnd(a, b) ==
    IF a = 0 \/ b = 0 THEN 0
    ELSE ((a % 2) * (b % 2)) + 2 * BitAnd(a \div 2, b \div 2)

RECURSIVE BitOr(_, _)
BitOr(a, b) ==
    IF a = 0 THEN b
    ELSE IF b = 0 THEN a
    ELSE (IF a % 2 = 1 \/ b % 2 = 1 THEN 1 ELSE 0) + 2 * BitOr(a \div 2, b \div 2)

\* !x on a u8
BitNot8(a) == 255 - a

\* raw_value & s == s
is_set(raw, s) == BitAnd(raw, s) = s

\* raw_value |= s
set(raw, s) == BitOr(raw, s)

\* raw_value &= !s
unset(raw, s) == BitAnd(raw, BitNot8(s))

\* ------------------------------------------------------- program constants

RESET == 8
NMI == 4
IRQ == 2
BRK == 1
NO_INTERRUPT == 0

CPUStatus_I == 4

Controller_NMI == 128
Controller_SPRITE_SIZE == 32
Controller_VRAM_ADDR_INCR == 4
Controller_BG_TABLE_ADDR == 16
Controller_SPRITE_TABLE_ADDR == 8
Mask_SPRITE == 16
Mask_BACKGROUND == 8
Mask_SPRITE_LEFT == 4
Mask_BACKGROUND_LEFT == 2
Status_VBLANK == 128
Status_SPRITE_ZERO_HIT == 64
Status_SPRITE_OVERFLOW == 32

MAX_DOT == 340
MAX_LINE == 261
WIDTH == 256
NAME_TABLE_FIRST == 8192
ATTRIBUTE_TABLE_FIRST == 9152
TILE_HEIGHT == 8

\* opcode bytes of the instructions the modelled programs are made of
OP_NOP == 234
OP_SEI == 120
OP_CLI == 88
OP_BRK == 0

\* PPU register ports as PPU::read_register / write_register decode them
OP_PHA == 72
OP_PHP == 8
OP_PLA == 104
OP_PLP == 40
OP_RTI == 64
CPUStatus_N == 128
CPUStatus_R == 32
CPUStatus_B == 16
CPUStatus_Z == 2
CPUStatus_V == 64
CPUStatus_D == 8
CPUStatus_C == 1
OPERATED_B == 48
INTERRUPTED_B == 32
PPUCTRL == 8192
PPUMASK == 8193
PPUSTATUS == 8194
OAMADDR == 8195
OAMDATA == 8196
PPUSCROLL == 8197
PPUADDR == 8198
PPUDATA == 8199

\* the length of primary_oam
OAM_SIZE == 256
SPRITE_COUNT == 64
SPRITE_LIMIT == 8

VARIABLES
    interrupt,      \* NES.interrupt.raw_value
    cpu,            \* CPU as the scheduler sees it: [p, cycles]; in SpecCPU and
                    \* SpecStack the whole CPU, see "CPU on its bus"
    ppu,            \* PPU: the scan, the frame counter and the registers, see PPU_new
    cycles,         \* NES.cycles
    rom,            \* the opcode byte the program image holds at every address
    wram,           \* CPUBus.wram: the bytes written since CPUBus::new zero-filled it
    host,           \* where the host is: "idle", "loop" (inside frame), "returned"
    current,        \* frame()'s local: the frame counter when frame was called
    calls,          \* number of frame calls made (Spec) / cpu_step calls made (SpecPoll)
                    \* / operations made (SpecReg, SpecBus, SpecCPU)
    dots,           \* history: PPU::step calls made by NES::step so far
    poll,           \* history: the last cpu_step, see NoPoll
    raised,         \* history: a PPU::step of the last NES::step returned NMI
    last,           \* history: the last PPU::step, see NoStep; the last operation
                    \* in SpecReg, SpecBus, SpecCPU (NoReg, NoBus, NoCpu); the bytes
                    \* pushed and pulled in SpecStack (NoStack)
    frame_dots      \* history: [now, done]: PPU::step calls since the last frame
                    \* counter increment, and between the last two increments

vars == <<interrupt, cpu, ppu, cycles, rom, wram, host, current, calls, dots, poll, raised,
          last, frame_dots>>

\* ---------------------------------------------------------------- PPU scan

\* Scan::skip
Scan_skip(pp) == [pp EXCEPT !.dot = (pp.dot + 1) % 65536]

\* Scan::next_dot: the scan after the call, and the ScanUpdate it returns
Scan_next_dot(pp) ==
    LET d1 == (pp.dot + 1) % 65536 IN
    IF MAX_DOT <= d1
    THEN LET d2 == d1 % MAX_DOT
             l1 == pp.line + 1 IN
         IF MAX_LINE < l1
         THEN [scan |-> [pp EXCEPT !.dot = d2, !.line = 0], update |-> "Frame"]
         ELSE [scan |-> [pp EXCEPT !.dot = d2, !.line = l1], update |-> "Line"]
    ELSE [scan |-> [pp EXCEPT !.dot = d1], update |-> "Dot"]

\* Register::rendering_enabled
rendering_enabled(pp) ==
    is_set(pp.mask, Mask_SPRITE) \/ is_set(pp.mask, Mask_BACKGROUND)

\* the arm of `match (self.scan.line, self.scan.line == 261)` that PPU::step takes
step_arm(line) ==
    IF line \in 0..239 THEN "render"
    ELSE IF line = 240 THEN "post"
    ELSE IF line = 241 THEN "vblank"
    ELSE "other"

\* begin_vblank with the dot test off by one
begin_vblank_dot0(pp) == step_arm(pp.line) = "vblank" /\ pp.dot = 0

\* the test of the (241, _) arm of PPU::step: `self.scan.dot == 1` on line 241
begin_vblank(pp) == step_arm(pp.line) = "vblank" /\ pp.dot = 1

\* PPU::step: the PPU after the call and the interrupt it returns.
\* In the "render" arm pre_rendered is the second component of the matched
\* pair, self.scan.line == 261.  The pixel pipelines called in that arm act
\* on the tile, OAM and scroll latches and on status bits 6 and 5 only.
PPU_step(pp) ==
    LET arm == step_arm(pp.line)
        pre_rendered == (pp.line = 261)
        clear == arm = "render" /\ pre_rendered /\ pp.dot = 1
        skip == /\ arm = "render" /\ pre_rendered /\ pp.dot = 341
                /\ rendering_enabled(pp) /\ pp.frames % 2 # 0
        status ==
            IF clear
            THEN unset(pp.status, Status_VBLANK + Status_SPRITE_ZERO_HIT
                                  + Status_SPRITE_OVERFLOW)
            ELSE IF begin_vblank(pp) THEN set(pp.status, Status_VBLANK)
            ELSE pp.status
        ret ==
            IF begin_vblank(pp) /\ is_set(pp.controller, Controller_NMI)
            THEN NMI ELSE NO_INTERRUPT
    IN  CHOOSE out \in
            {[ppu |-> IF nd.update = "Frame"
                      THEN [nd.scan EXCEPT !.frames = nd.scan.frames + 1,
                                           !.status = status]
                      ELSE [nd.scan EXCEPT !.status = status],
              interrupt |-> ret] :
             nd \in {Scan_next_dot(sc) :
                      sc \in {IF skip THEN Scan_skip(pp) ELSE pp}}} : TRUE

\* !x on a u16
BitNot16(a) == 65535 - a

\* Controller::name_table_select
name_table_select(controller) == BitAnd(controller, 3)

\* Register::write_controller
write_controller(pp, value) ==
    [pp EXCEPT !.controller = value,
               !.t = BitOr(BitAnd(pp.t, BitNot16(3072)),
                           (name_table_select(value) * 1024) % 65536)]

\* Register::write_scroll
write_scroll(pp, position) ==
    IF ~pp.write_toggle
    THEN [pp EXCEPT !.t = BitOr(BitAnd(pp.t, BitNot16(31)),
                                BitAnd(position, 248) \div 8),
                    !.fine_x = BitAnd(position, 7),
                    !.write_toggle = TRUE]
    ELSE [pp EXCEPT !.t = BitOr(BitOr(BitAnd(pp.t, BitNot16(29664)),
                                      (BitAnd(position, 7) * 4096) % 65536),
                                (BitAnd(position, 248) * 4) % 65536),
                    !.write_toggle = FALSE]

\* Register::write_vram_address
write_vram_address(pp, d) ==
    IF ~pp.write_toggle
    THEN [pp EXCEPT !.t = BitOr(BitAnd(pp.t, BitNot16(16128)),
                                (BitAnd(d, 63) * 256) % 65536),
                    !.write_toggle = TRUE]
    ELSE [pp EXCEPT !.t = BitOr(BitAnd(pp.t, BitNot16(255)), d),
                    !.v = BitOr(BitAnd(pp.t, BitNot16(255)), d),
                    !.write_toggle = FALSE]

\* a status read that leaves the write toggle as it was
read_status_keeps_toggle(pp) ==
    [ppu |-> [pp EXCEPT !.status = unset(pp.status, Status_VBLANK)],
     result |-> pp.status]

\* Register::read_status: the register file after the call and the byte returned
read_status(pp) ==
    [ppu |-> [pp EXCEPT !.status = unset(pp.status, Status_VBLANK),
                        !.write_toggle = FALSE],
     result |-> pp.status]

\* PPUBus::to_name_table_address
to_name_table_address(bus, base) ==
    IF bus.mirroring = "Vertical" THEN BitAnd(base, 2048)
    ELSE IF 10240 <= base THEN ((2048 + base) % 65536) % 1024
    ELSE base % 1024

\* PPUBus::to_pallete_address
to_pallete_address(base) ==
    LET addr == base % 32 IN IF addr % 4 = 0 THEN BitOr(addr, 16) ELSE addr

\* <PPUBus as Memory>::read.  name_table, pallete_ram_idx and the mapper's chr
\* hold the bytes written; every other cell is 0.
PPUBus_read(bus, addr) ==
    LET cell(mem, i) == IF i \in DOMAIN mem THEN mem[i] ELSE 0
    IN  IF addr <= 8191 THEN cell(bus.chr, addr)
        ELSE IF addr <= 12287
        THEN cell(bus.name_table, to_name_table_address(bus, addr))
        ELSE IF addr <= 16127
        THEN cell(bus.name_table, to_name_table_address(bus, addr - 4096))
        ELSE IF addr <= 16383
        THEN cell(bus.pallete_ram_idx, to_pallete_address(addr))
        ELSE 0

\* <PPUBus as Memory>::write
PPUBus_write(bus, addr, value) ==
    LET store(mem, i) == [k \in DOMAIN mem \cup {i} |-> IF k = i THEN value ELSE mem[k]]
    IN  IF addr <= 8191 THEN [bus EXCEPT !.chr = store(bus.chr, addr)]
        ELSE IF addr <= 12287
        THEN [bus EXCEPT !.name_table =
                 store(bus.name_table, to_name_table_address(bus, addr))]
        ELSE IF addr <= 16127
        THEN [bus EXCEPT !.name_table =
                 store(bus.name_table, to_name_table_address(bus, addr - 4096))]
        ELSE IF addr <= 16383
        THEN [bus EXCEPT !.pallete_ram_idx =
                 store(bus.pallete_ram_idx, to_pallete_address(addr))]
        ELSE bus

\* an address increment of 1 whatever PPUCTRL holds
incr_v_by_one(pp) == [pp EXCEPT !.v = (pp.v + 1) % 65536]

\* Register::incr_v with Controller::vram_increment
incr_v(pp) ==
    [pp EXCEPT !.v = (pp.v + (IF is_set(pp.controller, Controller_VRAM_ADDR_INCR)
                              THEN 32 ELSE 1)) % 65536]

\* self.primary_oam[i]; the array is zero-filled by PPU::new and primary_oam
\* holds the bytes written since
oam_at(pp, i) == IF i \in DOMAIN pp.primary_oam THEN pp.primary_oam[i] ELSE 0

\* the arm of `match addr` in PPU::read_register: the PPU after it and its value
read_register_arm(pp, addr) ==
    IF addr = PPUSTATUS
    THEN LET r == read_status(pp)
             result == BitOr(r.result, BitAnd(pp.internal_data_bus, 31))
         IN  [ppu |-> r.ppu,
              result |-> IF pp.line = 241 /\ pp.dot < 2
                         THEN BitAnd(result, BitNot8(128))
                         ELSE result]
    ELSE IF addr = OAMDATA
    THEN [ppu |-> pp,
          result |-> IF pp.line < 240 /\ 1 <= pp.dot /\ pp.dot <= 64
                     THEN 255
                     ELSE oam_at(pp, pp.object_attribute_memory_address)]
    ELSE IF addr = PPUDATA
    THEN IF pp.v <= 16127
         THEN [ppu |-> incr_v([pp EXCEPT !.data = PPUBus_read(pp.bus, pp.v)]),
               result |-> pp.data]
         ELSE [ppu |-> incr_v(pp), result |-> PPUBus_read(pp.bus, pp.v)]
    ELSE [ppu |-> pp, result |-> 0]

\* PPU::read_register: the PPU after the call and the byte returned
PPU_read_register(pp, addr) ==
    CHOOSE out \in
        {[ppu |-> [r.ppu EXCEPT !.internal_data_bus = r.result],
          result |-> r.result] : r \in {read_register_arm(pp, addr)}} : TRUE

\* PPU::write_register
PPU_write_register(pp, addr, value) ==
    IF addr = PPUCTRL THEN write_controller(pp, value)
    ELSE IF addr = PPUMASK THEN [pp EXCEPT !.mask = value]
    ELSE IF addr = OAMADDR THEN [pp EXCEPT !.object_attribute_memory_address = value]
    ELSE IF addr = OAMDATA
    THEN [pp EXCEPT
            !.primary_oam =
                [i \in DOMAIN pp.primary_oam \cup {pp.object_attribute_memory_address} |->
                    IF i = pp.object_attribute_memory_address THEN value
                    ELSE pp.primary_oam[i]],
            !.object_attribute_memory_address = pp.object_attribute_memory_address + 1]
    ELSE IF addr = PPUSCROLL THEN write_scroll(pp, value)
    ELSE IF addr = PPUADDR THEN write_vram_address(pp, value)
    ELSE IF addr = PPUDATA
    THEN incr_v([pp EXCEPT !.bus = PPUBus_write(pp.bus, pp.v, value)])
    ELSE pp

\* PPU::reset: Register::reset, Scan::clear, frames = 0
PPU_reset(pp) ==
    [pp EXCEPT !.controller = 0, !.mask = 0, !.status = 0, !.data = 0,
               !.dot = 0, !.line = 0, !.frames = 0]

\* PPU::new
PPU_new == [dot |-> 0, line |-> 0, frames |-> 0, status |-> 0,
            controller |-> 0, mask |-> 0, data |-> 0,
            object_attribute_memory_address |-> 0, primary_oam |-> <<>>,
            v |-> 0, t |-> 0, fine_x |-> 0, write_toggle |-> FALSE,
            internal_data_bus |-> 0,
            bus |-> [name_table |-> <<>>, pallete_ram_idx |-> <<>>, chr |-> <<>>,
                     mirroring |-> "Horizontal"],
            secondary_oam |-> [i \in 0..31 |-> 0],
            sprites |-> [i \in 0..7 |-> [y |-> 0, tile_index |-> 0, attr |-> 0, x |-> 0]],
            sprite_zero_on_line |-> FALSE,
            name_table_entry |-> 0, attr_table_entry |-> 0, bg_temp_addr |-> 0,
            tile |-> [pattern |-> [low |-> 0, high |-> 0],
                      attr |-> [low |-> 0, high |-> 0,
                                low_latch |-> FALSE, high_latch |-> FALSE]],
            next_pattern |-> [low |-> 0, high |-> 0]]

\* ------------------------------------------------------- history variables

NoPoll == [pending |-> 0, p |-> 0, serviced |-> NO_INTERRUPT, executed |-> FALSE,
           before |-> NO_INTERRUPT]
NoStep == [done |-> FALSE, line |-> 0, dot |-> 0, status |-> 0, controller |-> 0,
           frames |-> 0, ret |-> NO_INTERRUPT]

\* ================================================================ SpecPPU

\* register writes made in SpecPPU
PPUWrites == {<<PPUCTRL, 128>>, <<PPUCTRL, 0>>, <<PPUMASK, 8>>}

InitPPU ==
    /\ interrupt = NO_INTERRUPT
    /\ cpu = [p |-> 0, cycles |-> 0]
    /\ ppu = PPU_new
    /\ cycles = 0
    /\ rom = OP_BRK
    /\ wram = <<>>
    /\ host = "idle"
    /\ current = 0
    /\ calls = 0
    /\ dots = 0
    /\ poll = NoPoll
    /\ raised = FALSE
    /\ last = NoStep
    /\ frame_dots = [now |-> 0, done |-> 0]

PPUStep ==
    /\ ppu.frames < MaxFrames
    /\ LET r == PPU_step(ppu) IN
       /\ ppu' = r.ppu
       /\ last' = [done |-> TRUE, line |-> ppu.line, dot |-> ppu.dot,
                   status |-> ppu.status, controller |-> ppu.controller,
                   frames |-> ppu.frames, ret |-> r.interrupt]
       /\ frame_dots' = IF r.ppu.frames # ppu.frames
                        THEN [now |-> 0, done |-> frame_dots.now + 1]
                        ELSE [frame_dots EXCEPT !.now = frame_dots.now + 1]
    /\ UNCHANGED <<wram, rom, interrupt, cpu, cycles, host, current, calls, dots, poll, raised>>

PPUWrite ==
    /\ \E w \in PPUWrites : ppu' = PPU_write_register(ppu, w[1], w[2])
    /\ UNCHANGED <<wram, rom, interrupt, cpu, cycles, host, current, calls, dots, poll, raised,
                   last, frame_dots>>

PPUReset ==
    /\ ppu' = PPU_reset(ppu)
    /\ last' = NoStep
    /\ frame_dots' = [now |-> 0, done |-> 0]
    /\ UNCHANGED <<wram, rom, interrupt, cpu, cycles, host, current, calls, dots, poll, raised>>

NextPPU == PPUStep \/ PPUWrite \/ PPUReset

SpecPPU == InitPPU /\ [][NextPPU]_vars

\* ==================================================================== CPU

\* CPU::interrupted
CPU_interrupted(c) == is_set(c.p, CPUStatus_I)

\* CPU::reset: cycles += 5, then read_word (two bus reads)
CPU_reset(c) ==
    [c EXCEPT !.cycles = c.cycles + 5 + 2, !.p = set(c.p, CPUStatus_I)]

\* CPU::non_markable_interrupt: cycles += 2, push_stack_word (two bus writes),
\* push_stack (one), read_word (two bus reads)
CPU_non_markable_interrupt(c) ==
    [c EXCEPT !.cycles = c.cycles + 2 + 2 + 1 + 2, !.p = set(c.p, CPUStatus_I)]

\* CPU::interrupt_request
CPU_interrupt_request(c) ==
    [c EXCEPT !.cycles = c.cycles + 2 + 2 + 1 + 2, !.p = set(c.p, CPUStatus_I)]

\* CPU::break_interrupt
CPU_break_interrupt(c) ==
    [c EXCEPT !.cycles = c.cycles + 2 + 2 + 1 + 2, !.p = set(c.p, CPUStatus_I)]

\* The match of instructions::decode, indexed by opcode + 1: mnemonic,
\* addressing mode, and the penalty flag of AbsoluteX / AbsoluteY (FALSE for
\* the modes that carry none).  Opcodes the match does not list take its
\* default arm, NOP Implicit.
OpcodeTable ==
    <<<<"BRK", "Implicit", FALSE>>, <<"ORA", "IndexedIndirect", FALSE>>,
      <<"NOP", "Implicit", FALSE>>, <<"SLO", "IndexedIndirect", FALSE>>,
      <<"NOP", "ZeroPage", FALSE>>, <<"ORA", "ZeroPage", FALSE>>,
      <<"ASL", "ZeroPage", FALSE>>, <<"SLO", "ZeroPage", FALSE>>,
      <<"PHP", "Implicit", FALSE>>, <<"ORA", "Immediate", FALSE>>,
      <<"ASL", "Accumulator", FALSE>>, <<"NOP", "Implicit", FALSE>>,
      <<"NOP", "Absolute", FALSE>>, <<"ORA", "Absolute", FALSE>>,
      <<"ASL", "Absolute", FALSE>>, <<"SLO", "Absolute", FALSE>>,
      <<"BPL", "Relative", FALSE>>, <<"ORA", "IndirectIndexed", FALSE>>,
      <<"NOP", "Implicit", FALSE>>, <<"SLO", "IndirectIndexed", FALSE>>,
      <<"NOP", "ZeroPageX", FALSE>>, <<"ORA", "ZeroPageX", FALSE>>,
      <<"ASL", "ZeroPageX", FALSE>>, <<"SLO", "ZeroPageX", FALSE>>,
      <<"CLC", "Implicit", FALSE>>, <<"ORA", "AbsoluteY", TRUE>>,
      <<"NOP", "Implicit", FALSE>>, <<"SLO", "AbsoluteY", FALSE>>,
      <<"NOP", "AbsoluteX", TRUE>>, <<"ORA", "AbsoluteX", TRUE>>,
      <<"ASL", "AbsoluteX", FALSE>>, <<"SLO", "AbsoluteX", FALSE>>,
      <<"JSR", "Absolute", FALSE>>, <<"AND", "IndexedIndirect", FALSE>>,
      <<"NOP", "Implicit", FALSE>>, <<"RLA", "IndexedIndirect", FALSE>>,
      <<"BIT", "ZeroPage", FALSE>>, <<"AND", "ZeroPage", FALSE>>,
      <<"ROL", "ZeroPage", FALSE>>, <<"RLA", "ZeroPage", FALSE>>,
      <<"PLP", "Implicit", FALSE>>, <<"AND", "Immediate", FALSE>>,
      <<"ROL", "Accumulator", FALSE>>, <<"NOP", "Implicit", FALSE>>,
      <<"BIT", "Absolute", FALSE>>, <<"AND", "Absolute", FALSE>>,
      <<"ROL", "Absolute", FALSE>>, <<"RLA", "Absolute", FALSE>>,
      <<"BMI", "Relative", FALSE>>, <<"AND", "IndirectIndexed", FALSE>>,
      <<"NOP", "Implicit", FALSE>>, <<"RLA", "IndirectIndexed", FALSE>>,
      <<"NOP", "ZeroPageX", FALSE>>, <<"AND", "ZeroPageX", FALSE>>,
      <<"ROL", "ZeroPageX", FALSE>>, <<"RLA", "ZeroPageX", FALSE>>,
      <<"SEC", "Implicit", FALSE>>, <<"AND", "AbsoluteY", TRUE>>,
      <<"NOP", "Implicit", FALSE>>, <<"RLA", "AbsoluteY", FALSE>>,
      <<"NOP", "AbsoluteX", TRUE>>, <<"AND", "AbsoluteX", TRUE>>,
      <<"ROL", "AbsoluteX", FALSE>>, <<"RLA", "AbsoluteX", FALSE>>,
      <<"RTI", "Implicit", FALSE>>, <<"EOR", "IndexedIndirect", FALSE>>,
      <<"NOP", "Implicit", FALSE>>, <<"SRE", "IndexedIndirect", FALSE>>,
      <<"NOP", "ZeroPage", FALSE>>, <<"EOR", "ZeroPage", FALSE>>,
      <<"LSR", "ZeroPage", FALSE>>, <<"SRE", "ZeroPage", FALSE>>,
      <<"PHA", "Implicit", FALSE>>, <<"EOR", "Immediate", FALSE>>,
      <<"LSR", "Accumulator", FALSE>>, <<"NOP", "Implicit", FALSE>>,
      <<"JMP", "Absolute", FALSE>>, <<"EOR", "Absolute", FALSE>>,
      <<"LSR", "Absolute", FALSE>>, <<"SRE", "Absolute", FALSE>>,
      <<"BVC", "Relative", FALSE>>, <<"EOR", "IndirectIndexed", FALSE>>,
      <<"NOP", "Implicit", FALSE>>, <<"SRE", "IndirectIndexed", FALSE>>,
      <<"NOP", "ZeroPageX", FALSE>>, <<"EOR", "ZeroPageX", FALSE>>,
      <<"LSR", "ZeroPageX", FALSE>>, <<"SRE", "ZeroPageX", FALSE>>,
      <<"CLI", "Implicit", FALSE>>, <<"EOR", "AbsoluteY", TRUE>>,
      <<"NOP", "Implicit", FALSE>>, <<"SRE", "AbsoluteY", FALSE>>,
      <<"NOP", "AbsoluteX", TRUE>>, <<"EOR", "AbsoluteX", TRUE>>,
      <<"LSR", "AbsoluteX", FALSE>>, <<"SRE", "AbsoluteX", FALSE>>,
      <<"RTS", "Implicit", FALSE>>, <<"ADC", "IndexedIndirect", FALSE>>,
      <<"NOP", "Implicit", FALSE>>, <<"RRA", "IndexedIndirect", FALSE>>,
      <<"NOP", "ZeroPage", FALSE>>, <<"ADC", "ZeroPage", FALSE>>,
      <<"ROR", "ZeroPage", FALSE>>, <<"RRA", "ZeroPage", FALSE>>,
      <<"PLA", "Implicit", FALSE>>, <<"ADC", "Immediate", FALSE>>,
      <<"ROR", "Accumulator", FALSE>>, <<"NOP", "Implicit", FALSE>>,
      <<"JMP", "Indirect", FALSE>>, <<"ADC", "Absolute", FALSE>>,
      <<"ROR", "Absolute", FALSE>>, <<"RRA", "Absolute", FALSE>>,
      <<"BVS", "Relative", FALSE>>, <<"ADC", "IndirectIndexed", FALSE>>,
      <<"NOP", "Implicit", FALSE>>, <<"RRA", "IndirectIndexed", FALSE>>,
      <<"NOP", "ZeroPageX", FALSE>>, <<"ADC", "ZeroPageX", FALSE>>,
      <<"ROR", "ZeroPageX", FALSE>>, <<"RRA", "ZeroPageX", FALSE>>,
      <<"SEI", "Implicit", FALSE>>, <<"ADC", "AbsoluteY", TRUE>>,
      <<"NOP", "Implicit", FALSE>>, <<"RRA", "AbsoluteY", FALSE>>,
      <<"NOP", "AbsoluteX", TRUE>>, <<"ADC", "AbsoluteX", TRUE>>,
      <<"ROR", "AbsoluteX", FALSE>>, <<"RRA", "AbsoluteX", FALSE>>,
      <<"NOP", "Immediate", FALSE>>, <<"STA", "IndexedIndirect", FALSE>>,
      <<"NOP", "Immediate", FALSE>>, <<"SAX", "IndexedIndirect", FALSE>>,
      <<"STY", "ZeroPage", FALSE>>, <<"STA", "ZeroPage", FALSE>>,
      <<"STX", "ZeroPage", FALSE>>, <<"SAX", "ZeroPage", FALSE>>,
      <<"DEY", "Implicit", FALSE>>, <<"NOP", "Immediate", FALSE>>,
      <<"TXA", "Implicit", FALSE>>, <<"NOP", "Implicit", FALSE>>,
      <<"STY", "Absolute", FALSE>>, <<"STA", "Absolute", FALSE>>,
      <<"STX", "Absolute", FALSE>>, <<"SAX", "Absolute", FALSE>>,
      <<"BCC", "Relative", FALSE>>, <<"STA", "IndirectIndexed", FALSE>>,
      <<"NOP", "Implicit", FALSE>>, <<"NOP", "Implicit", FALSE>>,
      <<"STY", "ZeroPageX", FALSE>>, <<"STA", "ZeroPageX", FALSE>>,
      <<"STX", "ZeroPageY", FALSE>>, <<"SAX", "ZeroPageY", FALSE>>,
      <<"TYA", "Implicit", FALSE>>, <<"STA", "AbsoluteY", FALSE>>,
      <<"TXS", "Implicit", FALSE>>, <<"NOP", "Implicit", FALSE>>,
      <<"NOP", "Implicit", FALSE>>, <<"STA", "AbsoluteX", FALSE>>,
      <<"NOP", "Implicit", FALSE>>, <<"NOP", "Implicit", FALSE>>,
      <<"LDY", "Immediate", FALSE>>, <<"LDA", "IndexedIndirect", FALSE>>,
      <<"LDX", "Immediate", FALSE>>, <<"LAX", "IndexedIndirect", FALSE>>,
      <<"LDY", "ZeroPage", FALSE>>, <<"LDA", "ZeroPage", FALSE>>,
      <<"LDX", "ZeroPage", FALSE>>, <<"LAX", "ZeroPage", FALSE>>,
      <<"TAY", "Implicit", FALSE>>, <<"LDA", "Immediate", FALSE>>,
      <<"TAX", "Implicit", FALSE>>, <<"NOP", "Implicit", FALSE>>,
      <<"LDY", "Absolute", FALSE>>, <<"LDA", "Absolute", FALSE>>,
      <<"LDX", "Absolute", FALSE>>, <<"LAX", "Absolute", FALSE>>,
      <<"BCS", "Relative", FALSE>>, <<"LDA", "IndirectIndexed", FALSE>>,
      <<"NOP", "Implicit", FALSE>>, <<"LAX", "IndirectIndexed", FALSE>>,
      <<"LDY", "ZeroPageX", FALSE>>, <<"LDA", "ZeroPageX", FALSE>>,
      <<"LDX", "ZeroPageY", FALSE>>, <<"LAX", "ZeroPageY", FALSE>>,
      <<"CLV", "Implicit", FALSE>>, <<"LDA", "AbsoluteY", TRUE>>,
      <<"TSX", "Implicit", FALSE>>, <<"NOP", "Implicit", FALSE>>,
      <<"LDY", "AbsoluteX", TRUE>>, <<"LDA", "AbsoluteX", TRUE>>,
      <<"LDX", "AbsoluteY", TRUE>>, <<"LAX", "AbsoluteY", TRUE>>,
      <<"CPY", "Immediate", FALSE>>, <<"CMP", "IndexedIndirect", FALSE>>,
      <<"NOP", "Immediate", FALSE>>, <<"DCP", "IndexedIndirect", FALSE>>,
      <<"CPY", "ZeroPage", FALSE>>, <<"CMP", "ZeroPage", FALSE>>,
      <<"DEC", "ZeroPage", FALSE>>, <<"DCP", "ZeroPage", FALSE>>,
      <<"INY", "Implicit", FALSE>>, <<"CMP", "Immediate", FALSE>>,
      <<"DEX", "Implicit", FALSE>>, <<"NOP", "Implicit", FALSE>>,
      <<"CPY", "Absolute", FALSE>>, <<"CMP", "Absolute", FALSE>>,
      <<"DEC", "Absolute", FALSE>>, <<"DCP", "Absolute", FALSE>>,
      <<"BNE", "Relative", FALSE>>, <<"CMP", "IndirectIndexed", FALSE>>,
      <<"NOP", "Implicit", FALSE>>, <<"DCP", "IndirectIndexed", FALSE>>,
      <<"NOP", "ZeroPageX", FALSE>>, <<"CMP", "ZeroPageX", FALSE>>,
      <<"DEC", "ZeroPageX", FALSE>>, <<"DCP", "ZeroPageX", FALSE>>,
      <<"CLD", "Implicit", FALSE>>, <<"CMP", "AbsoluteY", TRUE>>,
      <<"NOP", "Implicit", FALSE>>, <<"DCP", "AbsoluteY", FALSE>>,
      <<"NOP", "AbsoluteX", TRUE>>, <<"CMP", "AbsoluteX", TRUE>>,
      <<"DEC", "AbsoluteX", FALSE>>, <<"DCP", "AbsoluteX", FALSE>>,
      <<"CPX", "Immediate", FALSE>>, <<"SBC", "IndexedIndirect", FALSE>>,
      <<"NOP", "Immediate", FALSE>>, <<"ISB", "IndexedIndirect", FALSE>>,
      <<"CPX", "ZeroPage", FALSE>>, <<"SBC", "ZeroPage", FALSE>>,
      <<"INC", "ZeroPage", FALSE>>, <<"ISB", "ZeroPage", FALSE>>,
      <<"INX", "Implicit", FALSE>>, <<"SBC", "Immediate", FALSE>>,
      <<"NOP", "Implicit", FALSE>>, <<"SBC", "Immediate", FALSE>>,
      <<"CPX", "Absolute", FALSE>>, <<"SBC", "Absolute", FALSE>>,
      <<"INC", "Absolute", FALSE>>, <<"ISB", "Absolute", FALSE>>,
      <<"BEQ", "Relative", FALSE>>, <<"SBC", "IndirectIndexed", FALSE>>,
      <<"NOP", "Implicit", FALSE>>, <<"ISB", "IndirectIndexed", FALSE>>,
      <<"NOP", "ZeroPageX", FALSE>>, <<"SBC", "ZeroPageX", FALSE>>,
      <<"INC", "ZeroPageX", FALSE>>, <<"ISB", "ZeroPageX", FALSE>>,
      <<"SED", "Implicit", FALSE>>, <<"SBC", "AbsoluteY", TRUE>>,
      <<"NOP", "Implicit", FALSE>>, <<"ISB", "AbsoluteY", FALSE>>,
      <<"NOP", "AbsoluteX", TRUE>>, <<"SBC", "AbsoluteX", TRUE>>,
      <<"INC", "AbsoluteX", FALSE>>, <<"ISB", "AbsoluteX", FALSE>>>>

\* instructions::decode
decode(opcode) ==
    [mnemonic |-> OpcodeTable[opcode + 1][1],
     addressing_mode |-> OpcodeTable[opcode + 1][2],
     penalty |-> OpcodeTable[opcode + 1][3]]

\* instructions::execute for the mnemonics the programs of the scheduler
\* hold; Implicit operands cost no bus access.  brk: push_stack_word, push_stack, cycles += 1, read_word.
execute(c, mnemonic) ==
    IF mnemonic = "SEI"
    THEN [c EXCEPT !.p = set(c.p, CPUStatus_I), !.cycles = c.cycles + 1]
    ELSE IF mnemonic = "CLI"
    THEN [c EXCEPT !.p = unset(c.p, CPUStatus_I), !.cycles = c.cycles + 1]
    ELSE IF mnemonic = "BRK"
    THEN [c EXCEPT !.cycles = c.cycles + 2 + 1 + 1 + 2]
    ELSE [c EXCEPT !.cycles = c.cycles + 1]

\* CPU::step on the opcode byte found at PC: fetch is one bus read
CPU_step(c, opcode) ==
    execute([c EXCEPT !.cycles = c.cycles + 1], decode(opcode).mnemonic)

\* ======================================================== interrupt latch

\* Interrupt::get with the first two tests in the other order
Interrupt_get_nmi_first(raw) ==
    IF is_set(raw, NMI) THEN NMI
    ELSE IF is_set(raw, RESET) THEN RESET
    ELSE IF is_set(raw, IRQ) THEN IRQ
    ELSE IF is_set(raw, BRK) THEN BRK
    ELSE NO_INTERRUPT

\* Interrupt::get
Interrupt_get(raw) ==
    IF is_set(raw, RESET) THEN RESET
    ELSE IF is_set(raw, NMI) THEN NMI
    ELSE IF is_set(raw, IRQ) THEN IRQ
    ELSE IF is_set(raw, BRK) THEN BRK
    ELSE NO_INTERRUPT

\* ============================================================== scheduler

\* NES::handle_interrupt: the CPU and the latch after the poll, and the
\* interrupt whose entry was called (NO_INTERRUPT when none was)
handle_interrupt(c, raw) ==
    LET i == Interrupt_get(raw) IN
    IF i = RESET
    THEN [cpu |-> CPU_reset(c), interrupt |-> unset(raw, i), serviced |-> i]
    ELSE IF i = NMI
    THEN [cpu |-> CPU_non_markable_interrupt(c), interrupt |-> unset(raw, i),
          serviced |-> i]
    ELSE IF i = IRQ /\ CPU_interrupted(c)
    THEN [cpu |-> CPU_interrupt_request(c), interrupt |-> unset(raw, i),
          serviced |-> i]
    ELSE IF i = BRK /\ CPU_interrupted(c)
    THEN [cpu |-> CPU_break_interrupt(c), interrupt |-> unset(raw, i),
          serviced |-> i]
    ELSE [cpu |-> c, interrupt |-> raw, serviced |-> NO_INTERRUPT]

\* NES::diff_cycles.  CPUCycle is a u128; the second branch, taken only once
\* the counter has wrapped, is written modulo 2^128, where u128::MAX is -1
diff_cycles(before, after) ==
    IF before <= after THEN after - before
    ELSE (0 - 1) - before + after

\* poll_then_step calling CPU::step only when the poll serviced nothing
poll_or_step(h, opcode) ==
    IF h.serviced # NO_INTERRUPT THEN h.cpu ELSE CPU_step(h.cpu, opcode)

\* the two statements of NES::cpu_step between the cycle readings:
\* `self.handle_interrupt(); self.cpu.step();`, h being handle_interrupt's result
poll_then_step(h, opcode) == CPU_step(h.cpu, opcode)

\* NES::cpu_step: the CPU and latch after it, the CPUCycle it returns, the
\* interrupt the poll serviced and whether an instruction was executed.
\* h is what handle_interrupt left, e the CPU after the call of CPU::step.
cpu_step(c, raw, opcode) ==
    CHOOSE out \in
        UNION {{[cpu |-> e, interrupt |-> h.interrupt, serviced |-> h.serviced,
                 executed |-> e.cycles # h.cpu.cycles,
                 cpu_cycles |-> diff_cycles(c.cycles, e.cycles)] :
                e \in {poll_then_step(h, opcode)}} :
               h \in {handle_interrupt(c, raw)}} : TRUE

\* ppu_steps for an inclusive range, `0..=(cpu_cycles * 3)`
ppu_steps_inclusive(cpu_cycles) == cpu_cycles * 3 + 1

\* the bound of the loop `for _ in 0..(cpu_cycles * 3)` of NES::step
ppu_steps(cpu_cycles) == cpu_cycles * 3

\* latch that drops what PPU::step returned
latch_drop(raw, ret) == raw

\* `if let Some(interrupt) = ppu.step() { self.interrupt.set(interrupt) }`
latch(raw, ret) == IF ret # NO_INTERRUPT THEN set(raw, ret) ELSE raw

\* one turn of the loop of NES::step, r being what PPU::step returned: the
\* latch is set when an interrupt was returned.  st = [ppu, interrupt, raised,
\* count], count being the number of PPU::step calls made, raised whether one
\* of them returned NMI
ppu_turn(st, r) ==
    [ppu |-> r.ppu,
     interrupt |-> latch(st.interrupt, r.interrupt),
     raised |-> (st.raised \/ r.interrupt # NO_INTERRUPT),
     count |-> st.count + 1]

\* the loop `for _ in 0..n` of NES::step; each turn's result is bound to a
\* value before the next turn starts
RECURSIVE run_ppu(_, _)
run_ppu(st, n) ==
    IF n <= 0 THEN st
    ELSE CHOOSE out \in
            {run_ppu(nx, m) :
             nx \in {ppu_turn(st, r) : r \in {PPU_step(st.ppu)}},
             m \in {n - 1}} : TRUE

\* NES::step after its cpu_step returned cs: the PPU loop, then
\* `self.cycles += cpu_cycles`
NES_step_ppu(cs, pp, total) ==
    CHOOSE out \in
        {[cpu |-> cs.cpu, interrupt |-> r.interrupt, ppu |-> r.ppu,
          cycles |-> total + cs.cpu_cycles, serviced |-> cs.serviced,
          executed |-> cs.executed, cpu_cycles |-> cs.cpu_cycles,
          raised |-> r.raised, count |-> r.count] :
         r \in {run_ppu([ppu |-> pp, interrupt |-> cs.interrupt,
                         raised |-> FALSE, count |-> 0],
                        ppu_steps(cs.cpu_cycles))}} : TRUE

\* NES::step
NES_step(c, raw, pp, total, opcode) ==
    CHOOSE out \in
        {NES_step_ppu(cs, pp, total) : cs \in {cpu_step(c, raw, opcode)}} : TRUE

\* ================================================================== Spec

\* the program images of Spec: the zero-filled memory of NES::default, where
\* every opcode is BRK (its vector too, so PC stays in it), and a NOP sled
SchedProgram == {OP_BRK, OP_NOP}

\* register writes made between frames in Spec
SchedWrites == {<<PPUCTRL, 128>>}

Init ==
    /\ interrupt = NO_INTERRUPT
    /\ cpu = [p |-> 0, cycles |-> 0]
    /\ ppu = PPU_new
    /\ cycles = 0
    /\ rom \in SchedProgram
    /\ wram = <<>>
    /\ host = "idle"
    /\ current = 0
    /\ calls = 0
    /\ dots = 0
    /\ poll = NoPoll
    /\ raised = FALSE
    /\ last = NoStep
    /\ frame_dots = [now |-> 0, done |-> 0]

\* NES::reset
Reset ==
    /\ host # "loop"
    /\ interrupt' = set(interrupt, RESET)
    /\ ppu' = PPU_reset(ppu)
    /\ host' = "idle"
    /\ UNCHANGED <<wram, rom, cpu, cycles, current, calls, dots, poll, raised, last, frame_dots>>

\* PPU::write_register between two frames
WriteRegister ==
    /\ host # "loop"
    /\ \E w \in SchedWrites : ppu' = PPU_write_register(ppu, w[1], w[2])
    /\ host' = "idle"
    /\ UNCHANGED <<wram, rom, interrupt, cpu, cycles, current, calls, dots, poll, raised,
                   last, frame_dots>>

\* frame_done comparing against the frame after the current one
frame_done_early(cur, frames) == cur + 1 # frames

\* the test that ends the loop of NES::frame: `current != frames`
frame_done(cur, frames) == cur # frames

\* NES::frame is called: `let current = self.ppu.borrow_mut().frames`
Frame ==
    /\ host # "loop"
    /\ calls < MaxCalls
    /\ current' = ppu.frames
    /\ host' = "loop"
    /\ calls' = calls + 1
    /\ UNCHANGED <<wram, rom, interrupt, cpu, ppu, cycles, dots, poll, raised, last, frame_dots>>

\* one turn of frame()'s loop: NES::step, then the test that breaks the loop
Step ==
    /\ host = "loop"
    /\ \E r \in {NES_step(cpu, interrupt, ppu, cycles, rom)} :
        /\ cpu' = r.cpu
        /\ interrupt' = r.interrupt
        /\ ppu' = r.ppu
        /\ cycles' = r.cycles
        /\ dots' = dots + r.count
        /\ poll' = [pending |-> interrupt, p |-> cpu.p, serviced |-> r.serviced,
                    executed |-> r.executed, before |-> poll.serviced]
        /\ raised' = r.raised
        /\ host' = IF frame_done(current, r.ppu.frames) THEN "returned" ELSE "loop"
    /\ UNCHANGED <<wram, rom, current, calls, last, frame_dots>>

Next == Reset \/ WriteRegister \/ Frame \/ Step

Spec == Init /\ [][Next]_vars

\* the loop of frame() keeps running: the host never suspends it
FairSpec == Spec /\ WF_vars(Step)

\* ============================================================== SpecPoll

\* opcodes the program of SpecPoll is made of
PollProgram == {OP_NOP, OP_SEI, OP_CLI, OP_BRK}

InitPoll ==
    /\ interrupt \in 0..15
    /\ cpu = [p |-> 0, cycles |-> 0]
    /\ ppu = PPU_new
    /\ cycles = 0
    /\ rom = OP_BRK
    /\ wram = <<>>
    /\ host = "idle"
    /\ current = 0
    /\ calls = 0
    /\ dots = 0
    /\ poll = NoPoll
    /\ raised = FALSE
    /\ last = NoStep
    /\ frame_dots = [now |-> 0, done |-> 0]

\* NES::power_on
PowerOn ==
    /\ cpu' = [cpu EXCEPT !.p = 52]
    /\ UNCHANGED <<wram, rom, interrupt, ppu, cycles, host, current, calls, dots, poll, raised,
                   last, frame_dots>>

\* NES::cpu_step
CpuStep ==
    /\ calls < MaxPolls
    /\ \E opcode \in PollProgram :
        LET r == cpu_step(cpu, interrupt, opcode) IN
        /\ cpu' = r.cpu
        /\ interrupt' = r.interrupt
        /\ poll' = [pending |-> interrupt, p |-> cpu.p, serviced |-> r.serviced,
                    executed |-> r.executed, before |-> poll.serviced]
    /\ calls' = calls + 1
    /\ UNCHANGED <<wram, rom, ppu, cycles, host, current, dots, raised, last, frame_dots>>

NextPoll == PowerOn \/ CpuStep

SpecPoll == InitPoll /\ [][NextPoll]_vars

\* =============================================================== SpecReg
\* The PPU register file read and written through PPU::read_register and
\* PPU::write_register around the start of vertical blanking.

\* The scan positions and status bytes SpecReg starts from: the PPU has been
\* stepped from PPU::new to line 241, dot 0, of its first frame (VBLANK never
\* set yet) or of its second (VBLANK set at line 241 of the first frame), with
\* the sprite flags clear or as sprite evaluation and sprite zero left them.
RegStarts ==
    {[frames |-> 0, status |-> 0],
     [frames |-> 0, status |-> Status_SPRITE_ZERO_HIT + Status_SPRITE_OVERFLOW],
     [frames |-> 1, status |-> Status_VBLANK],
     [frames |-> 1, status |-> Status_VBLANK + Status_SPRITE_ZERO_HIT
                               + Status_SPRITE_OVERFLOW]}

NoReg == [kind |-> "none", addr |-> 0, value |-> 0, result |-> 0,
          before |-> PPU_new, after_status_read |-> FALSE]

InitReg ==
    /\ interrupt = NO_INTERRUPT
    /\ cpu = [p |-> 0, cycles |-> 0]
    /\ \E st \in RegStarts :
        ppu = [PPU_new EXCEPT !.line = 241, !.dot = 0, !.frames = st.frames,
                              !.status = st.status]
    /\ cycles = 0
    /\ rom = OP_BRK
    /\ wram = <<>>
    /\ host = "idle"
    /\ current = 0
    /\ calls = 0
    /\ dots = 0
    /\ poll = NoPoll
    /\ raised = FALSE
    /\ last = NoReg
    /\ frame_dots = [now |-> 0, done |-> 0]

\* PPU::read_register
RegRead ==
    /\ calls < MaxRegOps
    /\ \E addr \in {PPUSTATUS, OAMDATA, PPUMASK} :
        /\ addr = OAMDATA => ppu.object_attribute_memory_address < OAM_SIZE
        /\ LET r == PPU_read_register(ppu, addr) IN
           /\ ppu' = r.ppu
           /\ last' = [kind |-> "read", addr |-> addr, value |-> 0,
                       result |-> r.result, before |-> ppu,
                       after_status_read |-> FALSE]
    /\ calls' = calls + 1
    /\ UNCHANGED <<wram, rom, interrupt, cpu, cycles, host, current, dots, poll, raised,
                   frame_dots>>

\* PPU::write_register
RegWrite ==
    /\ calls < MaxRegOps
    /\ \E w \in {<<PPUCTRL, 131>>, <<OAMADDR, 0>>, <<OAMDATA, 95>>,
                 <<PPUSCROLL, 125>>, <<PPUADDR, 33>>} :
        /\ w[1] = OAMDATA => ppu.object_attribute_memory_address < OAM_SIZE
        /\ ppu' = PPU_write_register(ppu, w[1], w[2])
        /\ last' = [kind |-> "write", addr |-> w[1], value |-> w[2], result |-> 0,
                    before |-> ppu, after_status_read |-> FALSE]
    /\ calls' = calls + 1
    /\ UNCHANGED <<wram, rom, interrupt, cpu, cycles, host, current, dots, poll, raised,
                   frame_dots>>

\* PPU::step
RegStep ==
    /\ ppu.line = 241
    /\ ppu.dot < MaxRegDot
    /\ LET r == PPU_step(ppu) IN
       /\ ppu' = r.ppu
       /\ last' = [kind |-> "step", addr |-> 0, value |-> 0, result |-> 0,
                   before |-> ppu,
                   after_status_read |-> last.kind = "read" /\ last.addr = PPUSTATUS]
    /\ UNCHANGED <<wram, rom, interrupt, cpu, cycles, host, current, calls, dots, poll,
                   raised, frame_dots>>

NextReg == RegRead \/ RegWrite \/ RegStep

SpecReg == InitReg /\ [][NextReg]_vars

\* =============================================================== SpecBus
\* CPUBus: the CPU's view of work RAM and of the PPU registers.

\* self.wram[i]
wram_at(w, i) == IF i \in DOMAIN w THEN w[i] ELSE 0

\* to_ppu_addr
to_ppu_addr(addr) == ((8192 + addr) % 65536) % 8

\* <CPUBus as Memory>::read below the cartridge region ($4020-$FFFF, which goes
\* to the mapper): the PPU after the call and the byte returned
CPUBus_read(w, pp, addr) ==
    IF addr <= 8191 THEN [ppu |-> pp, result |-> wram_at(w, addr)]
    ELSE IF addr <= 16383 THEN PPU_read_register(pp, to_ppu_addr(addr))
    ELSE [ppu |-> pp, result |-> 0]

\* <CPUBus as Memory>::write below the cartridge region: wram and the PPU after
\* the call
CPUBus_write(w, pp, addr, value) ==
    IF addr <= 8191
    THEN [wram |-> [i \in DOMAIN w \cup {addr} |-> IF i = addr THEN value ELSE w[i]],
          ppu |-> pp]
    ELSE IF addr <= 16383
    THEN [wram |-> w, ppu |-> PPU_write_register(pp, to_ppu_addr(addr), value)]
    ELSE [wram |-> w, ppu |-> pp]

\* addresses read and written in SpecBus
BusAddrs == {0, 2047, 2048, 4095, 6144, 8192, 8194, 8197, 8198, 8202, 16376, 16384}

NoBus == [kind |-> "none", addr |-> 0, value |-> 0, result |-> 0, before |-> PPU_new,
          prev |-> [kind |-> "none", addr |-> 0, value |-> 0]]

InitBus ==
    /\ interrupt = NO_INTERRUPT
    /\ cpu = [p |-> 0, cycles |-> 0]
    /\ \E st \in RegStarts :
        ppu = [PPU_new EXCEPT !.line = 241, !.dot = 0, !.frames = st.frames,
                              !.status = st.status]
    /\ cycles = 0
    /\ rom = OP_BRK
    /\ wram = <<>>
    /\ host = "idle"
    /\ current = 0
    /\ calls = 0
    /\ dots = 0
    /\ poll = NoPoll
    /\ raised = FALSE
    /\ last = NoBus
    /\ frame_dots = [now |-> 0, done |-> 0]

\* <CPUBus as Memory>::read
BusRead ==
    /\ calls < MaxBusOps
    /\ \E addr \in BusAddrs :
        LET r == CPUBus_read(wram, ppu, addr) IN
        /\ ppu' = r.ppu
        /\ last' = [kind |-> "read", addr |-> addr, value |-> 0, result |-> r.result,
                    before |-> ppu,
                    prev |-> [kind |-> last.kind, addr |-> last.addr,
                              value |-> last.value]]
    /\ calls' = calls + 1
    /\ UNCHANGED <<wram, rom, interrupt, cpu, cycles, host, current, dots, poll,
                   raised, frame_dots>>

\* <CPUBus as Memory>::write
BusWrite ==
    /\ calls < MaxBusOps
    /\ \E addr \in BusAddrs, value \in {90, 131} :
        LET r == CPUBus_write(wram, ppu, addr, value) IN
        /\ wram' = r.wram
        /\ ppu' = r.ppu
        /\ last' = [kind |-> "write", addr |-> addr, value |-> value, result |-> 0,
                    before |-> ppu,
                    prev |-> [kind |-> last.kind, addr |-> last.addr,
                              value |-> last.value]]
    /\ calls' = calls + 1
    /\ UNCHANGED <<rom, interrupt, cpu, cycles, host, current, dots, poll,
                   raised, frame_dots>>

\* PPU::step between two bus accesses
BusStep ==
    /\ ppu.line = 241
    /\ ppu.dot < MaxRegDot
    /\ ppu' = PPU_step(ppu).ppu
    /\ last' = [NoBus EXCEPT !.kind = "step", !.before = ppu]
    /\ UNCHANGED <<wram, rom, interrupt, cpu, cycles, host, current, calls, dots,
                   poll, raised, frame_dots>>

NextBus == BusRead \/ BusWrite \/ BusStep

SpecBus == InitBus /\ [][NextBus]_vars

\* ======================================================== CPU on its bus
\* The CPU with its registers and the memory it owns.  c is
\* [a, x, y, s, p, pc, cycles, bus, log]: the fields of struct CPU, bus being a
\* [u8; 0x10000] held as [code, fill, ram] (see mem_at), and log the history
\* of the bus writes made since the caller cleared it.

\* the interrupt vectors of every memory image: NMI -> $9012, RESET -> $8034,
\* IRQ/BRK -> $A056
Vectors == <<18, 144, 52, 128, 86, 160>>

\* <[u8; 0x10000] as Memory>::read.  The array holds the bytes written (ram)
\* over an image: the vectors at $FFFA-$FFFF, the byte fill below $0800 and
\* the opcodes of code repeated from $0800 up.
mem_at(bus, addr) ==
    IF addr \in DOMAIN bus.ram THEN bus.ram[addr]
    ELSE IF addr >= 65530 THEN Vectors[addr - 65530 + 1]
    ELSE IF addr < 2048 THEN bus.fill
    ELSE bus.code[(addr % Len(bus.code)) + 1]

\* <[u8; 0x10000] as Memory>::write
mem_store(bus, addr, value) ==
    [bus EXCEPT !.ram = [i \in DOMAIN bus.ram \cup {addr} |->
                            IF i = addr THEN value ELSE bus.ram[i]]]

\* CPU::read: the CPU after the call and the byte read.  reads is the
\* history of the bus reads, each with the number of bus writes before it.
read(c, addr) ==
    [cpu |-> [c EXCEPT !.cycles = c.cycles + 1,
                       !.reads = Append(c.reads, <<addr, Len(c.log)>>)],
     value |-> mem_at(c.bus, addr)]

\* CPU::read_word
read_word(c, addr) ==
    LET l == read(c, addr)
        h == read(l.cpu, (addr + 1) % 65536)
    IN  [cpu |-> h.cpu, value |-> BitOr(l.value, (h.value * 256) % 65536)]

\* CPU::write
write(c, addr, value) ==
    [c EXCEPT !.cycles = c.cycles + 1,
              !.bus = mem_store(c.bus, addr, value),
              !.log = Append(c.log, <<addr, value>>)]

\* CPU::fetch
fetch(c) ==
    LET r == read(c, c.pc)
    IN  [cpu |-> [r.cpu EXCEPT !.pc = (c.pc + 1) % 65536], value |-> r.value]

\* a push that lowers S before writing
push_stack_decrement_first(c, value) ==
    [write(c, (((c.s + 255) % 256) + 256) % 65536, value) EXCEPT
        !.s = (c.s + 255) % 256]

\* CPU::push_stack
push_stack(c, value) ==
    [write(c, (c.s + 256) % 65536, value) EXCEPT !.s = (c.s - 1) % 256]

\* a word pushed low byte first
push_stack_word_low_first(c, word) ==
    push_stack(push_stack(c, BitAnd(word, 255) % 256), (word \div 256) % 256)

\* CPU::push_stack_word
push_stack_word(c, word) ==
    push_stack(push_stack(c, (word \div 256) % 256), BitAnd(word, 255) % 256)

\* CPU::pull_stack
pull_stack(c) ==
    LET s == (c.s + 1) % 256
    IN  read([c EXCEPT !.s = s], (s + 256) % 65536)

\* CPU::pull_stack_word
pull_stack_word(c) ==
    LET l == pull_stack(c)
        h == pull_stack(l.cpu)
    IN  [cpu |-> h.cpu, value |-> BitOr((h.value * 256) % 65536, l.value)]

\* CPU::reset without the stack pointer adjustment
reset_keeps_s(c) ==
    LET r == read_word([c EXCEPT !.cycles = c.cycles + 5], 65532)
    IN  [r.cpu EXCEPT !.pc = r.value, !.p = set(c.p, CPUStatus_I)]

\* CPU::reset
reset(c) ==
    LET r == read_word([c EXCEPT !.cycles = c.cycles + 5], 65532)
    IN  [r.cpu EXCEPT !.pc = r.value,
                      !.p = set(c.p, CPUStatus_I),
                      !.s = (c.s - 3) % 256]

\* an interrupt entry that pushes the status byte before the return address
interrupt_entry_p_first(c, vector) ==
    LET c1 == push_stack([c EXCEPT !.cycles = c.cycles + 2],
                         BitOr(c.p, INTERRUPTED_B))
        c2 == push_stack_word(c1, c.pc)
        r  == read_word([c2 EXCEPT !.p = set(c2.p, CPUStatus_I)], vector)
    IN  [r.cpu EXCEPT !.pc = r.value]

\* the body shared by CPU::non_markable_interrupt and CPU::interrupt_request
interrupt_entry(c, vector) ==
    LET c1 == push_stack_word([c EXCEPT !.cycles = c.cycles + 2], c.pc)
        c2 == push_stack(c1, BitOr(c1.p, INTERRUPTED_B))
        r  == read_word([c2 EXCEPT !.p = set(c2.p, CPUStatus_I)], vector)
    IN  [r.cpu EXCEPT !.pc = r.value]

\* CPU::non_markable_interrupt
non_markable_interrupt(c) == interrupt_entry(c, 65530)

\* CPU::interrupt_request
interrupt_request(c) == interrupt_entry(c, 65534)

\* CPU::break_interrupt
break_interrupt(c) ==
    interrupt_entry([c EXCEPT !.pc = (c.pc + 1) % 65536], 65534)

\* CPUStatus::update_zn
update_zn(p, v) ==
    LET z == IF v = 0 THEN set(p, CPUStatus_Z) ELSE unset(p, CPUStatus_Z)
    IN  IF (v \div 128) % 2 = 1 THEN set(z, CPUStatus_N) ELSE unset(z, CPUStatus_N)

\* the pulled byte loaded into P as it is
pulled_raw(value) == value

\* the status byte PLP and RTI load: CPUStatus::from(pulled) & !B | R
pulled_status(value) == BitOr(BitAnd(value, BitNot8(CPUStatus_B)), CPUStatus_R)

\* instructions::pha
pha(c) ==
    LET c1 == push_stack(c, c.a) IN [c1 EXCEPT !.cycles = c1.cycles + 1]

\* instructions::php
php(c) ==
    LET c1 == push_stack(c, BitOr(c.p, OPERATED_B))
    IN  [c1 EXCEPT !.cycles = c1.cycles + 1]

\* instructions::pla
pla(c) ==
    LET r == pull_stack(c)
    IN  [r.cpu EXCEPT !.a = r.value, !.p = update_zn(c.p, r.value),
                      !.cycles = r.cpu.cycles + 2]

\* instructions::plp
plp(c) ==
    LET r == pull_stack(c)
    IN  [r.cpu EXCEPT !.p = pulled_status(r.value), !.cycles = r.cpu.cycles + 2]

\* instructions::rti
rti(c) ==
    LET r == pull_stack([c EXCEPT !.cycles = c.cycles + 2])
        w == pull_stack_word([r.cpu EXCEPT !.p = pulled_status(r.value)])
    IN  [w.cpu EXCEPT !.pc = w.value]

\* instructions::brk
brk(c) ==
    LET c1 == push_stack_word(c, c.pc)
        c2 == push_stack(c1, BitOr(c1.p, INTERRUPTED_B))
        r  == read_word([c2 EXCEPT !.cycles = c2.cycles + 1], 65534)
    IN  [r.cpu EXCEPT !.pc = r.value]

\* the arms of instructions::execute for the stack instructions, BRK, SEI,
\* CLI and NOP
execute_implicit(c, mnemonic) ==
    IF mnemonic = "PHA" THEN pha(c)
    ELSE IF mnemonic = "PHP" THEN php(c)
    ELSE IF mnemonic = "PLA" THEN pla(c)
    ELSE IF mnemonic = "PLP" THEN plp(c)
    ELSE IF mnemonic = "RTI" THEN rti(c)
    ELSE IF mnemonic = "BRK" THEN brk(c)
    ELSE IF mnemonic = "SEI"
    THEN [c EXCEPT !.p = set(c.p, CPUStatus_I), !.cycles = c.cycles + 1]
    ELSE IF mnemonic = "CLI"
    THEN [c EXCEPT !.p = unset(c.p, CPUStatus_I), !.cycles = c.cycles + 1]
    ELSE [c EXCEPT !.cycles = c.cycles + 1]

\* Byte ^ Byte
BitXor(a, b) == BitOr(a, b) - BitAnd(a, b)

\* Byte::nth
nth(v, n) == (v \div (2 ^ n)) % 2

\* CPUStatus::update
update(p, s, cond) == IF cond THEN set(p, s) ELSE unset(p, s)

\* cpu::page_crossed_u16
page_crossed_u16(value, from) ==
    BitAnd((from + value) % 65536, 65280) # BitAnd(from, 65280)

\* a page test that takes the offset as an unsigned byte
page_crossed_unsigned(value, from) ==
    BitAnd((from + (value % 256)) % 65536, 65280) # BitAnd(from, 65280)

\* cpu::page_crossed, on i64: value is a signed offset, and bits 8..15 of the
\* two's complement sum are those of the sum modulo 0x10000
page_crossed(value, from) ==
    BitAnd((from + value) % 65536, 65280) # BitAnd(from, 65280)

\* an indirect read whose high byte comes from the next address, carrying
\* into the page
read_on_indirect_carry(c, operand) == read_word(c, operand)

\* CPU::read_on_indirect
read_on_indirect(c, operand) ==
    LET low  == read(c, operand)
        addr == BitOr(BitAnd(operand, 65280), BitAnd((operand + 1) % 65536, 255))
        high == read(low.cpu, addr)
    IN  [cpu |-> high.cpu, value |-> BitOr(low.value, (high.value * 256) % 65536)]

\* an operand fetch that always takes the page-cross test of AbsoluteX and
\* AbsoluteY, whatever the penalty flag
get_operand_penalty_always(c, mode, penalty) ==
    LET w == read_word(c, c.pc)
        i == IF mode = "AbsoluteX" THEN c.x ELSE c.y
        z == read(c, c.pc)
    IN  IF mode \in {"AbsoluteX", "AbsoluteY"}
        THEN [cpu |-> [w.cpu EXCEPT !.pc = (c.pc + 2) % 65536,
                          !.cycles = w.cpu.cycles
                              + (IF page_crossed_u16(i, w.value) THEN 1 ELSE 0)],
              operand |-> (w.value + i) % 65536]
        ELSE IF mode = "Absolute"
        THEN [cpu |-> [w.cpu EXCEPT !.pc = (c.pc + 2) % 65536], operand |-> w.value]
        ELSE IF mode = "ZeroPage"
        THEN [cpu |-> [z.cpu EXCEPT !.pc = (c.pc + 1) % 65536], operand |-> z.value]
        ELSE [cpu |-> c, operand |-> 0]

\* AddressingMode::get_operand: the CPU after the call and the operand
get_operand(c, mode, penalty) ==
    LET pc1 == (c.pc + 1) % 65536
        pc2 == (c.pc + 2) % 65536
        b   == read(c, c.pc)
        w   == read_word(c, c.pc)
        i   == IF mode \in {"ZeroPageX", "AbsoluteX", "IndexedIndirect"}
               THEN c.x ELSE c.y
        ind  == read_on_indirect(w.cpu, w.value)
        xind == read_on_indirect(b.cpu, BitAnd((b.value + c.x) % 256, 255))
        indy == read_on_indirect(b.cpu, b.value)
    IN  IF mode = "Implicit" THEN [cpu |-> c, operand |-> 0]
        ELSE IF mode = "Accumulator" THEN [cpu |-> c, operand |-> c.a]
        ELSE IF mode = "Immediate"
        THEN [cpu |-> [c EXCEPT !.pc = pc1], operand |-> c.pc]
        ELSE IF mode = "ZeroPage"
        THEN [cpu |-> [b.cpu EXCEPT !.pc = pc1], operand |-> BitAnd(b.value, 255)]
        ELSE IF mode \in {"ZeroPageX", "ZeroPageY"}
        THEN [cpu |-> [b.cpu EXCEPT !.pc = pc1, !.cycles = b.cpu.cycles + 1],
              operand |-> BitAnd((b.value + i) % 65536, 255)]
        ELSE IF mode = "Absolute"
        THEN [cpu |-> [w.cpu EXCEPT !.pc = pc2], operand |-> w.value]
        ELSE IF mode \in {"AbsoluteX", "AbsoluteY"}
        THEN [cpu |-> [w.cpu EXCEPT !.pc = pc2,
                          !.cycles = w.cpu.cycles
                              + (IF penalty
                                 THEN (IF page_crossed_u16(i, w.value) THEN 1 ELSE 0)
                                 ELSE 1)],
              operand |-> (w.value + i) % 65536]
        ELSE IF mode = "Relative"
        THEN [cpu |-> [b.cpu EXCEPT !.pc = pc1], operand |-> b.value]
        ELSE IF mode = "Indirect"
        THEN [cpu |-> [ind.cpu EXCEPT !.pc = pc2], operand |-> ind.value]
        ELSE IF mode = "IndexedIndirect"
        THEN [cpu |-> [xind.cpu EXCEPT !.pc = pc1, !.cycles = xind.cpu.cycles + 1],
              operand |-> xind.value]
        ELSE \* IndirectIndexed
             LET operand == (indy.value + c.y) % 65536
             IN  [cpu |-> [indy.cpu EXCEPT !.pc = pc1,
                              !.cycles = indy.cpu.cycles
                                  + (IF page_crossed_u16(c.y, (operand - c.y) % 65536)
                                     THEN 1 ELSE 0)],
                  operand |-> operand]

\* a taken branch that tests the page of the target against the opcode's page
branch_from_opcode(c, operand) ==
    LET offset == IF operand >= 128 THEN operand - 256 ELSE operand
    IN  [c EXCEPT !.cycles = c.cycles + 1
                      + (IF page_crossed(offset + 2, (c.pc - 2) % 65536) THEN 1 ELSE 0),
                  !.pc = (c.pc + offset) % 65536]

\* instructions::branch: operand as u16 as i8 is the signed offset
branch(c, operand) ==
    LET offset == IF operand >= 128 THEN operand - 256 ELSE operand
    IN  [c EXCEPT !.cycles = c.cycles + 1
                      + (IF page_crossed(offset, c.pc) THEN 1 ELSE 0),
                  !.pc = (c.pc + offset) % 65536]

\* an addition that takes the overflow flag from the carry out of bit 7
adc_v_from_carry(c, operand) ==
    LET m      == read(c, operand)
        result == (c.a + m.value + (IF is_set(c.p, CPUStatus_C) THEN 1 ELSE 0)) % 256
        carry  == c.a + m.value + (IF is_set(c.p, CPUStatus_C) THEN 1 ELSE 0) > 255
        p1     == update(update(c.p, CPUStatus_C, carry), CPUStatus_V, carry)
    IN  [m.cpu EXCEPT !.a = result, !.p = update_zn(p1, result)]

\* instructions::adc
adc(c, operand) ==
    LET a      == c.a
        m      == read(c, operand)
        val    == m.value
        result == (((a + val) % 256) + (IF is_set(c.p, CPUStatus_C) THEN 1 ELSE 0)) % 256
        a7     == nth(a, 7)
        v7     == nth(val, 7)
        c6     == BitXor(BitXor(a7, v7), nth(result, 7))
        c7     == BitOr(BitOr(BitAnd(a7, v7), BitAnd(a7, c6)), BitAnd(v7, c6))
        p1     == update(update(c.p, CPUStatus_C, c7 = 1),
                         CPUStatus_V, BitXor(c6, c7) = 1)
    IN  [m.cpu EXCEPT !.a = result, !.p = update_zn(p1, result)]

\* instructions::sbc
sbc(c, operand) ==
    LET a      == c.a
        m      == read(c, operand)
        val    == BitNot8(m.value)
        result == (((a + val) % 256) + (IF is_set(c.p, CPUStatus_C) THEN 1 ELSE 0)) % 256
        a7     == nth(a, 7)
        v7     == nth(val, 7)
        c6     == BitXor(BitXor(a7, v7), nth(result, 7))
        c7     == BitOr(BitOr(BitAnd(a7, v7), BitAnd(a7, c6)), BitAnd(v7, c6))
        p1     == update(update(c.p, CPUStatus_C, c7 = 1),
                         CPUStatus_V, BitXor(c6, c7) = 1)
    IN  [m.cpu EXCEPT !.a = result, !.p = update_zn(p1, result)]

\* a read-modify-write body that reads its target again before it writes
modify_reads_twice(c, mnemonic, operand) ==
    LET m == read(read(c, operand).cpu, operand)
    IN  write([m.cpu EXCEPT !.p = update_zn(c.p, m.value)], operand, m.value)

\* The first half of every read-modify-write body (inc, dec, asl, lsr, rol,
\* ror, dcp, isb, slo, rla, sre, rra): read the target, compute the new byte
\* and the flags, write it back
modify(c, mnemonic, operand) ==
    LET m    == read(c, operand)
        data == m.value
        cin  == is_set(c.p, CPUStatus_C)
        out  == IF mnemonic \in {"INC", "ISB"} THEN (data + 1) % 256
                ELSE IF mnemonic \in {"DEC", "DCP"} THEN (data + 255) % 256
                ELSE IF mnemonic \in {"ASL", "SLO"} THEN (data * 2) % 256
                ELSE IF mnemonic \in {"LSR", "SRE"} THEN data \div 2
                ELSE IF mnemonic \in {"ROL", "RLA"}
                THEN BitOr((data * 2) % 256, IF cin THEN 1 ELSE 0)
                ELSE BitOr(data \div 2, IF cin THEN 128 ELSE 0)
        p0   == IF mnemonic = "RLA"
                THEN unset(c.p, BitOr(BitOr(CPUStatus_C, CPUStatus_Z), CPUStatus_N))
                ELSE c.p
        p1   == IF mnemonic \in {"ASL", "SLO", "ROL", "RLA"}
                THEN update(p0, CPUStatus_C, nth(data, 7) = 1)
                ELSE IF mnemonic \in {"LSR", "SRE", "ROR", "RRA"}
                THEN update(p0, CPUStatus_C, nth(data, 0) = 1)
                ELSE p0
    IN  write([m.cpu EXCEPT !.p = update_zn(p1, out)], operand, out)

\* instructions::execute after get_operand: the match on the mnemonic and
\* the bodies it calls
execute_operand(c, mnemonic, mode, operand) ==
    LET tick(cc)  == [cc EXCEPT !.cycles = cc.cycles + 1]
        zn(cc, v) == [cc EXCEPT !.p = update_zn(cc.p, v)]
        and(cc) == LET m == read(cc, operand)
                   IN  zn([m.cpu EXCEPT !.a = BitAnd(cc.a, m.value)],
                          BitAnd(cc.a, m.value))
        eor(cc) == LET m == read(cc, operand)
                   IN  zn([m.cpu EXCEPT !.a = BitXor(cc.a, m.value)],
                          BitXor(cc.a, m.value))
        ora(cc) == LET m == read(cc, operand)
                   IN  zn([m.cpu EXCEPT !.a = BitOr(cc.a, m.value)],
                          BitOr(cc.a, m.value))
        cmp(cc) == LET m == read(cc, operand)
                       d == (cc.a - m.value) % 65536
                   IN  zn([m.cpu EXCEPT !.p = update(cc.p, CPUStatus_C, d < 32768)], d)
        cpr(reg) == LET m == read(c, operand)
                    IN  zn([m.cpu EXCEPT !.p = update(c.p, CPUStatus_C, m.value <= reg)],
                           (reg - m.value) % 256)
        r == read(c, operand)
        shl(v) == (v * 2) % 256
        cin == is_set(c.p, CPUStatus_C)
        taken == \/ mnemonic = "BCC" /\ ~is_set(c.p, CPUStatus_C)
                 \/ mnemonic = "BCS" /\ is_set(c.p, CPUStatus_C)
                 \/ mnemonic = "BEQ" /\ is_set(c.p, CPUStatus_Z)
                 \/ mnemonic = "BMI" /\ is_set(c.p, CPUStatus_N)
                 \/ mnemonic = "BNE" /\ ~is_set(c.p, CPUStatus_Z)
                 \/ mnemonic = "BPL" /\ ~is_set(c.p, CPUStatus_N)
                 \/ mnemonic = "BVC" /\ ~is_set(c.p, CPUStatus_V)
                 \/ mnemonic = "BVS" /\ is_set(c.p, CPUStatus_V)
    IN  IF mnemonic = "LDA" THEN zn([r.cpu EXCEPT !.a = r.value], r.value)
        ELSE IF mnemonic = "LDX" THEN zn([r.cpu EXCEPT !.x = r.value], r.value)
        ELSE IF mnemonic = "LDY" THEN zn([r.cpu EXCEPT !.y = r.value], r.value)
        ELSE IF mnemonic = "STA"
        THEN IF mode = "IndirectIndexed" THEN tick(write(c, operand, c.a))
             ELSE write(c, operand, c.a)
        ELSE IF mnemonic = "STX" THEN write(c, operand, c.x)
        ELSE IF mnemonic = "STY" THEN write(c, operand, c.y)
        ELSE IF mnemonic = "TAX" THEN tick(zn([c EXCEPT !.x = c.a], c.a))
        ELSE IF mnemonic = "TSX" THEN tick(zn([c EXCEPT !.x = c.s], c.s))
        ELSE IF mnemonic = "TAY" THEN tick(zn([c EXCEPT !.y = c.a], c.a))
        ELSE IF mnemonic = "TXA" THEN tick(zn([c EXCEPT !.a = c.x], c.x))
        ELSE IF mnemonic = "TXS" THEN tick([c EXCEPT !.s = c.x])
        ELSE IF mnemonic = "TYA" THEN tick(zn([c EXCEPT !.a = c.y], c.y))
        ELSE IF mnemonic = "AND" THEN and(c)
        ELSE IF mnemonic = "EOR" THEN eor(c)
        ELSE IF mnemonic = "ORA" THEN ora(c)
        ELSE IF mnemonic = "BIT"
        THEN [r.cpu EXCEPT !.p =
                 update(update(update(c.p, CPUStatus_Z, BitAnd(c.a, r.value) = 0),
                               CPUStatus_V, nth(r.value, 6) = 1),
                        CPUStatus_N, nth(r.value, 7) = 1)]
        ELSE IF mnemonic = "ADC" THEN adc(c, operand)
        ELSE IF mnemonic = "SBC" THEN sbc(c, operand)
        ELSE IF mnemonic = "CMP" THEN cmp(c)
        ELSE IF mnemonic = "CPX" THEN cpr(c.x)
        ELSE IF mnemonic = "CPY" THEN cpr(c.y)
        ELSE IF mnemonic \in {"INC", "DEC"} THEN tick(modify(c, mnemonic, operand))
        ELSE IF mnemonic = "INX"
        THEN tick(zn([c EXCEPT !.x = (c.x + 1) % 256], (c.x + 1) % 256))
        ELSE IF mnemonic = "INY"
        THEN tick(zn([c EXCEPT !.y = (c.y + 1) % 256], (c.y + 1) % 256))
        ELSE IF mnemonic = "DEX"
        THEN tick(zn([c EXCEPT !.x = (c.x + 255) % 256], (c.x + 255) % 256))
        ELSE IF mnemonic = "DEY"
        THEN tick(zn([c EXCEPT !.y = (c.y + 255) % 256], (c.y + 255) % 256))
        ELSE IF mnemonic \in {"ASL", "LSR", "ROL", "ROR"} /\ mode = "Accumulator"
        THEN LET a == IF mnemonic = "ASL" THEN shl(c.a)
                      ELSE IF mnemonic = "LSR" THEN c.a \div 2
                      ELSE IF mnemonic = "ROL"
                      THEN BitOr(shl(c.a), IF cin THEN 1 ELSE 0)
                      ELSE BitOr(c.a \div 2, IF cin THEN 128 ELSE 0)
                  carry == IF mnemonic \in {"ASL", "ROL"} THEN nth(c.a, 7) = 1
                           ELSE nth(c.a, 0) = 1
             IN  tick(zn([c EXCEPT !.a = a, !.p = update(c.p, CPUStatus_C, carry)], a))
        ELSE IF mnemonic \in {"ASL", "LSR", "ROL", "ROR"}
        THEN tick(modify(c, mnemonic, operand))
        ELSE IF mnemonic = "JMP" THEN [c EXCEPT !.pc = operand]
        ELSE IF mnemonic = "JSR"
        THEN [tick(push_stack_word(c, (c.pc - 1) % 65536)) EXCEPT !.pc = operand]
        ELSE IF mnemonic = "RTS"
        THEN LET w == pull_stack_word([c EXCEPT !.cycles = c.cycles + 3])
             IN  [w.cpu EXCEPT !.pc = (w.value + 1) % 65536]
        ELSE IF mnemonic \in {"BCC", "BCS", "BEQ", "BMI", "BNE", "BPL", "BVC", "BVS"}
        THEN IF taken THEN branch(c, operand) ELSE c
        ELSE IF mnemonic = "CLC" THEN tick([c EXCEPT !.p = unset(c.p, CPUStatus_C)])
        ELSE IF mnemonic = "CLD" THEN tick([c EXCEPT !.p = unset(c.p, CPUStatus_D)])
        ELSE IF mnemonic = "CLV" THEN tick([c EXCEPT !.p = unset(c.p, CPUStatus_V)])
        ELSE IF mnemonic = "SEC" THEN tick([c EXCEPT !.p = set(c.p, CPUStatus_C)])
        ELSE IF mnemonic = "SED" THEN tick([c EXCEPT !.p = set(c.p, CPUStatus_D)])
        ELSE IF mnemonic = "LAX"
        THEN zn([r.cpu EXCEPT !.a = r.value, !.x = r.value], r.value)
        ELSE IF mnemonic = "SAX" THEN write(c, operand, BitAnd(c.a, c.x))
        ELSE IF mnemonic = "DCP" THEN cmp(modify(c, mnemonic, operand))
        ELSE IF mnemonic = "ISB" THEN sbc(modify(c, mnemonic, operand), operand)
        ELSE IF mnemonic = "SLO" THEN ora(modify(c, mnemonic, operand))
        ELSE IF mnemonic = "RLA" THEN and(modify(c, mnemonic, operand))
        ELSE IF mnemonic = "SRE" THEN eor(modify(c, mnemonic, operand))
        ELSE IF mnemonic = "RRA" THEN adc(modify(c, mnemonic, operand), operand)
        ELSE execute_implicit(c, mnemonic)

\* CPU::step
step(c) ==
    LET f  == fetch(c)
        op == decode(f.value)
        g  == get_operand(f.cpu, op.addressing_mode, op.penalty)
    IN  execute_operand(g.cpu, op.mnemonic, op.addressing_mode, g.operand)

\* CPU::new over a memory image
CPU_new(code, fill) ==
    [a |-> 0, x |-> 0, y |-> 0, s |-> 0, p |-> 0, pc |-> 0, cycles |-> 0,
     bus |-> [code |-> code, fill |-> fill, ram |-> <<>>], log |-> <<>>,
     reads |-> <<>>]

\* =============================================================== SpecCPU
\* The CPU alone on a [u8; 0x10000]: interrupt entries and instructions
\* applied from every status byte.

\* memory images of SpecCPU
CpuImages ==
    {[code |-> <<OP_PHP, OP_PLP>>, fill |-> 255],
     [code |-> <<OP_PHA, OP_PLP>>, fill |-> 0],
     [code |-> <<OP_RTI>>, fill |-> 255],
     [code |-> <<OP_BRK>>, fill |-> 0],
     [code |-> <<OP_PLA, OP_SEI>>, fill |-> 128],
     [code |-> <<OP_CLI, OP_NOP>>, fill |-> 16]}

\* The status bytes a CPU can hold: CPU::new leaves bits 5 and 4 clear,
\* power_on sets both, PLP and RTI load bit 5 set and bit 4 clear, and no
\* instruction sets bit 4 without bit 5.
CpuStatuses == {p \in 0..255 : ~(is_set(p, CPUStatus_B) /\ ~is_set(p, CPUStatus_R))}

NoCpu == [kind |-> "none", mnemonic |-> "", before |-> CPU_new(<<OP_NOP>>, 0),
          prev |-> [kind |-> "none", mnemonic |-> "",
                    before |-> CPU_new(<<OP_NOP>>, 0)]]

\* the history record of an operation of kind k applied to cpu
cpu_op(k, mnemonic) ==
    [kind |-> k, mnemonic |-> mnemonic, before |-> [cpu EXCEPT !.log = <<>>, !.reads = <<>>],
     prev |-> [kind |-> last.kind, mnemonic |-> last.mnemonic,
               before |-> last.before]]

InitCPU ==
    /\ interrupt = NO_INTERRUPT
    /\ \E image \in CpuImages, p \in CpuStatuses, s \in {1, 253},
          pc \in {33022, 33023} :
        cpu = [CPU_new(image.code, image.fill) EXCEPT
                  !.a = 183, !.x = 60, !.y = 126, !.p = p, !.s = s, !.pc = pc]
    /\ ppu = PPU_new
    /\ cycles = 0
    /\ rom = OP_BRK
    /\ wram = <<>>
    /\ host = "idle"
    /\ current = 0
    /\ calls = 0
    /\ dots = 0
    /\ poll = NoPoll
    /\ raised = FALSE
    /\ last = NoCpu
    /\ frame_dots = [now |-> 0, done |-> 0]

\* NES::power_on
RunPowerOn ==
    /\ calls < MaxCpuOps
    /\ cpu' = [cpu EXCEPT !.a = 0, !.x = 0, !.y = 0, !.s = 253, !.p = 52, !.log = <<>>, !.reads = <<>>]
    /\ last' = cpu_op("power_on", "")
    /\ calls' = calls + 1
    /\ UNCHANGED <<wram, rom, interrupt, ppu, cycles, host, current, dots, poll, raised,
                   frame_dots>>

\* CPU::reset
RunReset ==
    /\ calls < MaxCpuOps
    /\ cpu' = reset([cpu EXCEPT !.log = <<>>, !.reads = <<>>])
    /\ last' = cpu_op("reset", "")
    /\ calls' = calls + 1
    /\ UNCHANGED <<wram, rom, interrupt, ppu, cycles, host, current, dots, poll, raised,
                   frame_dots>>

\* CPU::non_markable_interrupt
RunNmi ==
    /\ calls < MaxCpuOps
    /\ cpu' = non_markable_interrupt([cpu EXCEPT !.log = <<>>, !.reads = <<>>])
    /\ last' = cpu_op("nmi", "")
    /\ calls' = calls + 1
    /\ UNCHANGED <<wram, rom, interrupt, ppu, cycles, host, current, dots, poll, raised,
                   frame_dots>>

\* CPU::interrupt_request
RunIrq ==
    /\ calls < MaxCpuOps
    /\ cpu' = interrupt_request([cpu EXCEPT !.log = <<>>, !.reads = <<>>])
    /\ last' = cpu_op("irq", "")
    /\ calls' = calls + 1
    /\ UNCHANGED <<wram, rom, interrupt, ppu, cycles, host, current, dots, poll, raised,
                   frame_dots>>

\* CPU::break_interrupt
RunBreak ==
    /\ calls < MaxCpuOps
    /\ cpu' = break_interrupt([cpu EXCEPT !.log = <<>>, !.reads = <<>>])
    /\ last' = cpu_op("break", "")
    /\ calls' = calls + 1
    /\ UNCHANGED <<wram, rom, interrupt, ppu, cycles, host, current, dots, poll, raised,
                   frame_dots>>

\* the opcodes decode knows
Decoded == {OP_PHA, OP_PHP, OP_PLA, OP_PLP, OP_RTI, OP_SEI, OP_CLI, OP_BRK, OP_NOP}

\* CPU::step, taken when the byte at PC is an opcode of Decoded
RunStep ==
    /\ calls < MaxCpuOps
    /\ mem_at(cpu.bus, cpu.pc) \in Decoded
    /\ cpu' = step([cpu EXCEPT !.log = <<>>, !.reads = <<>>])
    /\ last' = cpu_op("step", decode(mem_at(cpu.bus, cpu.pc)).mnemonic)
    /\ calls' = calls + 1
    /\ UNCHANGED <<wram, rom, interrupt, ppu, cycles, host, current, dots, poll, raised,
                   frame_dots>>

NextCPU == RunPowerOn \/ RunReset \/ RunNmi \/ RunIrq \/ RunBreak \/ RunStep

SpecCPU == InitCPU /\ [][NextCPU]_vars

\* ============================================================= SpecStack
\* The stack operations of the CPU: a run of pushes followed by pulls, and a
\* word pushed and pulled, from every stack pointer.

\* the stack pointers from which SpecStack pushes up to MaxPushes bytes and
\* every 16-bit word; from the others it pushes up to MaxShortPushes bytes
DeepStacks == {0, 253, 255}

\* the k-th byte pushed: 256 consecutive pushes push 256 different bytes
StackValue(k) == (37 * k + 11) % 256

NoStack == [start |-> 0, pushed |-> <<>>, pulled |-> <<>>, word |-> -1, got |-> -1]

InitStack ==
    /\ interrupt = NO_INTERRUPT
    /\ \E s \in 0..255 :
        /\ cpu = [CPU_new(<<OP_NOP>>, 0) EXCEPT !.s = s]
        /\ last = [NoStack EXCEPT !.start = s]
    /\ ppu = PPU_new
    /\ cycles = 0
    /\ rom = OP_BRK
    /\ wram = <<>>
    /\ host = "idle"
    /\ current = 0
    /\ calls = 0
    /\ dots = 0
    /\ poll = NoPoll
    /\ raised = FALSE
    /\ frame_dots = [now |-> 0, done |-> 0]

\* CPU::push_stack
StackPush ==
    /\ last.pulled = <<>>
    /\ last.word = -1
    /\ Len(last.pushed) < (IF last.start \in DeepStacks THEN MaxPushes
                           ELSE MaxShortPushes)
    /\ LET value == StackValue(Len(last.pushed) + 1) IN
       /\ cpu' = push_stack([cpu EXCEPT !.log = <<>>, !.reads = <<>>], value)
       /\ last' = [last EXCEPT !.pushed = Append(last.pushed, value)]
    /\ UNCHANGED <<wram, rom, interrupt, ppu, cycles, host, current, calls, dots, poll,
                   raised, frame_dots>>

\* CPU::pull_stack
StackPull ==
    /\ last.word = -1
    /\ Len(last.pulled) < Len(last.pushed)
    /\ LET r == pull_stack([cpu EXCEPT !.log = <<>>, !.reads = <<>>]) IN
       /\ cpu' = r.cpu
       /\ last' = [last EXCEPT !.pulled = Append(last.pulled, r.value)]
    /\ UNCHANGED <<wram, rom, interrupt, ppu, cycles, host, current, calls, dots, poll,
                   raised, frame_dots>>

\* CPU::push_stack_word
StackPushWord ==
    /\ last.start \in DeepStacks
    /\ last.pushed = <<>>
    /\ last.word = -1
    /\ \E word \in 0..65535 :
        /\ cpu' = push_stack_word([cpu EXCEPT !.log = <<>>, !.reads = <<>>], word)
        /\ last' = [last EXCEPT !.word = word]
    /\ UNCHANGED <<wram, rom, interrupt, ppu, cycles, host, current, calls, dots, poll,
                   raised, frame_dots>>

\* CPU::pull_stack_word
StackPullWord ==
    /\ last.word # -1
    /\ last.got = -1
    /\ LET r == pull_stack_word([cpu EXCEPT !.log = <<>>, !.reads = <<>>]) IN
       /\ cpu' = r.cpu
       /\ last' = [last EXCEPT !.got = r.value]
    /\ UNCHANGED <<wram, rom, interrupt, ppu, cycles, host, current, calls, dots, poll,
                   raised, frame_dots>>

NextStack == StackPush \/ StackPull \/ StackPushWord \/ StackPullWord

SpecStack == InitStack /\ [][NextStack]_vars

\* ============================================================== SpecExec
\* One instruction of every opcode, run on a [u8; 0x10000] from a choice of
\* operand bytes, index registers, flags and program counters.

\* The bytes of the memory image above $0800: 251 of them, so that the two
\* addresses an indirect read may take its high byte from hold different bytes
ExecCode == [i \in 1..251 |-> (37 * i + 11) % 256]

\* Bytes written before the instruction runs: the pointer of the JMP ($30FF)
\* example with the byte past its page, and zero-page pointers at $FF/$00
\* (with the byte at $0100), $00/$01 and $7F/$80
ExecData ==
    LET cells == {<<12543, 64>>, <<12288, 128>>, <<12544, 80>>,
                  <<255, 52>>, <<0, 18>>, <<256, 86>>, <<1, 65>>,
                  <<127, 240>>, <<128, 32>>}
    IN  [a \in {cell[1] : cell \in cells} |->
            (CHOOSE cell \in cells : cell[1] = a)[2]]

\* the CPU about to run the instruction <<opcode, lo, hi>> placed at pc
ExecStart(opcode, lo, hi, pc, a, x, y, p) ==
    LET bytes == <<opcode, lo, hi>>
        at    == {(pc + k) % 65536 : k \in 0..2}
        c     == CPU_new(ExecCode, 234)
    IN  [c EXCEPT !.a = a, !.x = x, !.y = y, !.p = p, !.s = 253, !.pc = pc,
                  !.bus.ram = [i \in DOMAIN ExecData \cup at |->
                                  IF i \in at
                                  THEN bytes[((i - pc) % 65536) + 1]
                                  ELSE ExecData[i]]]

InitExec ==
    /\ interrupt = NO_INTERRUPT
    /\ \E opcode \in 0..255, pc \in {33022, 32768, 65533, 3}, p \in {36, 231} :
        \/ \E lo \in {255, 128}, hi \in {48, 65}, x \in {0, 1, 255}, y \in {1, 255} :
            cpu = ExecStart(opcode, lo, hi, pc, 90, x, y, p)
        \/ /\ decode(opcode).addressing_mode = "Relative"
           /\ \E offset \in 0..255 : cpu = ExecStart(opcode, offset, 0, pc, 90, 0, 0, p)
    /\ ppu = PPU_new
    /\ cycles = 0
    /\ rom = OP_BRK
    /\ wram = <<>>
    /\ host = "idle"
    /\ current = 0
    /\ calls = 0
    /\ dots = 0
    /\ poll = NoPoll
    /\ raised = FALSE
    /\ last = NoCpu
    /\ frame_dots = [now |-> 0, done |-> 0]

\* CPU::step, once
ExecStep ==
    /\ last.kind = "none"
    /\ cpu' = step(cpu)
    /\ last' = cpu_op("step", decode(mem_at(cpu.bus, cpu.pc)).mnemonic)
    /\ UNCHANGED <<wram, rom, interrupt, ppu, cycles, host, current, calls, dots, poll,
                   raised, frame_dots>>

NextExec == ExecStep

SpecExec == InitExec /\ [][NextExec]_vars

\* =============================================================== SpecAlu
\* ADC and SBC (immediate) from every accumulator, operand, carry and
\* decimal flag.

InitAlu ==
    /\ interrupt = NO_INTERRUPT
    /\ \E opcode \in {105, 233}, a \in 0..255, m \in 0..255,
          flags \in {0, CPUStatus_C, CPUStatus_D, CPUStatus_C + CPUStatus_D} :
        cpu = ExecStart(opcode, m, 0, 32768, a, 0, 0, 36 + flags)
    /\ ppu = PPU_new
    /\ cycles = 0
    /\ rom = OP_BRK
    /\ wram = <<>>
    /\ host = "idle"
    /\ current = 0
    /\ calls = 0
    /\ dots = 0
    /\ poll = NoPoll
    /\ raised = FALSE
    /\ last = NoCpu
    /\ frame_dots = [now |-> 0, done |-> 0]

SpecAlu == InitAlu /\ [][NextExec]_vars

\* ========================================================= PPU background
\* The scroll counters in v and the background tile pipeline of PPU::step.

\* VRAMAddress::coarse_y_scroll: `self.0 & 0b11_11100000 >> 5`, the shift
\* binding tighter than the mask
coarse_y_scroll(v) == BitAnd(v, 992 \div 32)

\* Register::incr_coarse_x
incr_coarse_x(pp) ==
    IF BitAnd(pp.v, 31) = 31
    THEN [pp EXCEPT !.v = BitXor(BitAnd(pp.v, BitNot16(31)), 1024)]
    ELSE [pp EXCEPT !.v = (pp.v + 1) % 65536]

\* Register::incr_y, fine Y being VRAMAddress::fine_y_scroll
incr_y(pp) ==
    IF (BitAnd(pp.v, 28672) \div 4096) % 256 < 7
    THEN [pp EXCEPT !.v = (pp.v + 4096) % 65536]
    ELSE LET v0 == BitAnd(pp.v, BitNot16(28672))
             y0 == coarse_y_scroll(v0)
             v1 == IF y0 = 29 THEN BitXor(v0, 2048) ELSE v0
             y  == IF y0 = 29 \/ y0 = 31 THEN 0 ELSE y0 + 1
         IN  [pp EXCEPT !.v = BitOr(BitAnd(v1, BitNot16(992)), (y * 32) % 65536)]

\* Register::copy_x
copy_x(pp) == [pp EXCEPT !.v = BitOr(BitAnd(pp.v, BitNot16(1055)), BitAnd(pp.t, 1055))]

\* Register::copy_y
copy_y(pp) == [pp EXCEPT !.v = BitOr(BitAnd(pp.v, BitNot16(31712)), BitAnd(pp.t, 31712))]

\* Tile::reload
Tile_reload(tile, next_ptn, next_attr) ==
    [tile EXCEPT !.pattern.low = BitOr(BitAnd(tile.pattern.low, 65280), next_ptn.low),
                 !.pattern.high = BitOr(BitAnd(tile.pattern.high, 65280), next_ptn.high),
                 !.attr.low_latch = (next_attr % 2 = 1),
                 !.attr.high_latch = ((next_attr \div 2) % 2 = 1)]

\* Tile::shift
Tile_shift(tile) ==
    [tile EXCEPT !.pattern.low = (tile.pattern.low * 2) % 65536,
                 !.pattern.high = (tile.pattern.high * 2) % 65536,
                 !.attr.low = BitOr((tile.attr.low * 2) % 256,
                                    IF tile.attr.low_latch THEN 1 ELSE 0),
                 !.attr.high = BitOr((tile.attr.high * 2) % 256,
                                     IF tile.attr.high_latch THEN 1 ELSE 0)]

\* Tile::pixel_pallete: <<pixel, pallete>>.  Word::nth shifts by p, Byte::nth
\* by a modulo 8 (u8::wrapping_shr).
pixel_pallete(tile, x) ==
    LET p == (15 - x) % 256
        bit(w, n) == (w \div (2 ^ n)) % 2
    IN  <<2 * bit(tile.pattern.high, p % 16) + bit(tile.pattern.low, p % 16),
          2 * bit(tile.attr.high, p % 8) + bit(tile.attr.low, p % 8)>>

\* PPU::fetch_background_pixel
fetch_background_pixel(pp) ==
    LET d  == pp.dot
        nt == BitOr(NAME_TABLE_FIRST, BitAnd(pp.v, 4095))
        rd == PPUBus_read(pp.bus, pp.bg_temp_addr)
        at == BitOr(BitAnd(pp.v, 3072),
                    BitOr(BitAnd(pp.v \div 16, 56), BitAnd(pp.v \div 4, 7)))
        a0 == IF nth(BitAnd(pp.v, 31), 1) = 1 THEN rd \div 4 ELSE rd
        a1 == IF nth(coarse_y_scroll(pp.v), 1) = 1 THEN a0 \div 16 ELSE a0
        base == IF is_set(pp.controller, Controller_BG_TABLE_ADDR) THEN 4096 ELSE 0
        index == (((pp.name_table_entry * TILE_HEIGHT) % 256) * 2) % 256
        fine_y == (BitAnd(pp.v, 28672) \div 4096) % 256
    IN  IF d = 321 THEN [pp EXCEPT !.bg_temp_addr = nt]
        ELSE IF d \in 1..255 \/ d \in 322..336
        THEN CASE d % 8 = 1 ->
                    [pp EXCEPT !.bg_temp_addr = nt,
                               !.tile = Tile_reload(pp.tile, pp.next_pattern,
                                                    pp.attr_table_entry)]
               [] d % 8 = 2 -> [pp EXCEPT !.name_table_entry = rd]
               [] d % 8 = 3 ->
                    [pp EXCEPT !.bg_temp_addr = BitOr(ATTRIBUTE_TABLE_FIRST, at)]
               [] d % 8 = 4 -> [pp EXCEPT !.attr_table_entry = a1]
               [] d % 8 = 5 ->
                    [pp EXCEPT !.bg_temp_addr = (base + index + fine_y) % 65536]
               [] d % 8 = 6 -> [pp EXCEPT !.next_pattern.low = rd]
               [] d % 8 = 7 ->
                    [pp EXCEPT !.bg_temp_addr = (pp.bg_temp_addr + TILE_HEIGHT) % 65536]
               [] d % 8 = 0 ->
                    IF rendering_enabled(pp)
                    THEN incr_coarse_x([pp EXCEPT !.next_pattern.high = rd])
                    ELSE [pp EXCEPT !.next_pattern.high = rd]
        ELSE IF d = 256
        THEN IF rendering_enabled(pp)
             THEN incr_y([pp EXCEPT !.next_pattern.high = rd])
             ELSE [pp EXCEPT !.next_pattern.high = rd]
        ELSE IF d = 257
        THEN LET r == [pp EXCEPT !.tile = Tile_reload(pp.tile, pp.next_pattern,
                                                      pp.attr_table_entry)]
             IN  IF rendering_enabled(pp) THEN copy_x(r) ELSE r
        ELSE IF d \in 280..304
        THEN IF pp.line = 261 /\ rendering_enabled(pp) THEN copy_y(pp) ELSE pp
        ELSE IF d \in {337, 339} THEN [pp EXCEPT !.bg_temp_addr = nt]
        ELSE IF d \in {338, 340} THEN [pp EXCEPT !.name_table_entry = rd]
        ELSE pp

\* Register::is_enabled_background
is_enabled_background(pp, x) ==
    is_set(pp.mask, Mask_BACKGROUND) /\ ~(x < 8 /\ is_set(pp.mask, Mask_BACKGROUND_LEFT))

\* PPU::get_background_pixel: the PPU after the call and the Pixel returned
get_background_pixel(pp, x) ==
    LET pix == pixel_pallete(pp.tile, pp.fine_x)
        sh  == IF (1 <= pp.dot /\ pp.dot <= 256) \/ (321 <= pp.dot /\ pp.dot <= 336)
               THEN [pp EXCEPT !.tile = Tile_shift(pp.tile)]
               ELSE pp
    IN  [ppu |-> sh,
         pixel |-> IF is_enabled_background(pp, x)
                   THEN [enabled |-> pix[1] # 0,
                         color |-> PPUBus_read(pp.bus, (pix[2] * 4 + pix[1] + 16128) % 65536)]
                   ELSE [enabled |-> FALSE, color |-> 0]]

\* ============================================================ SpecSprite
\* PPU::step at dot 0 of a visible line: the sprite evaluation of
\* fetch_sprite_pixel over a choice of OAM contents.

\* The loop `for i in 0..SPRITE_COUNT` of the sprite evaluation, from sprite i
\* on.  e holds secondary_oam, the number of its slots the iterator has handed
\* out (used), n, sprite_zero_on_line, and panicked: an in-range sprite met
\* with fewer than four slots left makes iter.next().unwrap() panic, after
\* the slots that were left have been written.  Once the iterator is
\* exhausted the remaining sprites change nothing.
RECURSIVE sprite_evaluation(_, _, _)
sprite_evaluation(pp, i, e) ==
    IF i = SPRITE_COUNT \/ e.panicked \/ e.used >= 32 THEN e
    ELSE LET first == i * 4
             size  == IF is_set(pp.controller, Controller_SPRITE_SIZE) THEN 16 ELSE 8
             row   == (pp.line - oam_at(pp, first)) % 65536
             left  == 32 - e.used
         IN  IF row < size
             THEN sprite_evaluation(pp, i + 1,
                    [e EXCEPT
                       !.secondary_oam =
                           [k \in 0..31 |->
                               IF e.used <= k /\ k < e.used + 4
                               THEN oam_at(pp, first + (k - e.used))
                               ELSE e.secondary_oam[k]],
                       !.sprite_zero_on_line = e.sprite_zero_on_line \/ e.n = 0,
                       !.used = IF left >= 4 THEN e.used + 4 ELSE 32,
                       !.n = IF left >= 4 THEN e.n + 1 ELSE e.n,
                       !.panicked = left < 4])
             ELSE sprite_evaluation(pp, i + 1, [e EXCEPT !.used = e.used + 1])

\* PPU::fetch_sprite_pixel: the PPU after the call, and whether it panicked
fetch_sprite_pixel(pp) ==
    IF pp.dot = 0
    THEN LET e == sprite_evaluation(pp, 0,
                     [secondary_oam |-> [k \in 0..31 |-> 0], used |-> 0, n |-> 0,
                      sprite_zero_on_line |-> FALSE, panicked |-> FALSE])
         IN  [ppu |-> [pp EXCEPT
                          !.secondary_oam = e.secondary_oam,
                          !.sprite_zero_on_line = e.sprite_zero_on_line,
                          !.status = IF /\ ~e.panicked /\ SPRITE_LIMIT <= e.n
                                        /\ rendering_enabled(pp)
                                     THEN set(pp.status, Status_SPRITE_OVERFLOW)
                                     ELSE pp.status],
              panicked |-> e.panicked]
    ELSE IF pp.dot \in 257..320
    THEN LET i == (pp.dot - 257) \div 8
             n == i * 4
         IN  [ppu |-> [pp EXCEPT !.sprites[i] =
                          [y |-> pp.secondary_oam[n],
                           tile_index |-> pp.secondary_oam[n + 1],
                           attr |-> pp.secondary_oam[n + 1],
                           x |-> pp.secondary_oam[n + 1]]],
              panicked |-> FALSE]
    ELSE [ppu |-> pp, panicked |-> FALSE]

NoSprite == [kind |-> "none", before |-> PPU_new, panicked |-> FALSE]

\* OAM as OAMDATA writes can leave it: `hidden` sprites below the picture
\* (Y = 240), then `shown` sprites on the line, the rest below the picture
\* again; or untouched since PPU::new.  Sprite rendering is off, so that
\* get_sprite_pixel returns at once.
InitSprite ==
    /\ interrupt = NO_INTERRUPT
    /\ cpu = [p |-> 0, cycles |-> 0]
    /\ \E line \in {0, 100, 239}, mask \in {0, Mask_BACKGROUND},
          controller \in {0, Controller_SPRITE_SIZE} :
        \/ ppu = [PPU_new EXCEPT !.line = line, !.mask = mask, !.controller = controller]
        \/ \E hidden \in 0..32, shown \in {0, 1, 2, 9} :
            ppu = [PPU_new EXCEPT
                     !.line = line, !.mask = mask, !.controller = controller,
                     !.primary_oam =
                         [a \in 0..(OAM_SIZE - 1) |->
                             IF a % 4 # 0 THEN (7 * a + 3) % 256
                             ELSE IF hidden <= a \div 4 /\ a \div 4 < hidden + shown
                             THEN line
                             ELSE 240]]
    /\ cycles = 0
    /\ rom = OP_BRK
    /\ wram = <<>>
    /\ host = "idle"
    /\ current = 0
    /\ calls = 0
    /\ dots = 0
    /\ poll = NoPoll
    /\ raised = FALSE
    /\ last = NoSprite
    /\ frame_dots = [now |-> 0, done |-> 0]

\* PPU::step at dot 0 of a visible line, once: with rendering enabled
\* fetch_background_pixel does nothing at dot 0 and fetch_sprite_pixel
\* evaluates the sprites; a panic ends the step where it stands
SpriteStep ==
    /\ last.kind = "none"
    /\ LET f == IF rendering_enabled(ppu) THEN fetch_sprite_pixel(ppu)
                ELSE [ppu |-> ppu, panicked |-> FALSE]
       IN  /\ ppu' = IF f.panicked THEN f.ppu ELSE PPU_step(f.ppu).ppu
           /\ last' = [kind |-> "step", before |-> ppu, panicked |-> f.panicked]
    /\ UNCHANGED <<wram, rom, interrupt, cpu, cycles, host, current, calls, dots, poll,
                   raised, frame_dots>>

NextSprite == SpriteStep

SpecSprite == InitSprite /\ [][NextSprite]_vars

\* =============================================================== SpecRender
\* PPU::step with its pixel pipelines, on the lines of the picture.

\* Register::is_enabled_sprite
is_enabled_sprite(pp, x) ==
    is_set(pp.mask, Mask_SPRITE) /\ ~(x < 8 /\ is_set(pp.mask, Mask_SPRITE_LEFT))

\* Sprite::valid
Sprite_valid(sprite) ==
    ~(sprite.x = 255 /\ sprite.y = 255 /\ sprite.tile_index = 255 /\ sprite.attr = 255)

\* Sprite::row
Sprite_row(sprite, line, sprite_height) ==
    LET row == (line - sprite.y - 1) % 65536
    IN  IF is_set(sprite.attr, 128) THEN (sprite_height - 1 - row) % 65536 ELSE row

\* Sprite::col
Sprite_col(sprite, x) ==
    LET col == (7 - ((x - sprite.x) % 65536)) % 65536
    IN  IF is_set(sprite.attr, 64) THEN ((7 - col) % 65536) % 256 ELSE col % 256

\* The loop over self.sprites of PPU::get_sprite_pixel, from sprite i on: the
\* PPU after it, the Pixel returned, and whether it panicked.  The u16 sums
\* tile_addr and tile_addr + 8 overflow when they pass $FFFF: a "debug" build
\* panics there, a "release" build wraps.
RECURSIVE sprite_pixel_from(_, _, _, _, _)
sprite_pixel_from(pp, x, bg, i, build) ==
    LET ZERO == [enabled |-> FALSE, color |-> 0, behide_background |-> TRUE] IN
    IF i = SPRITE_LIMIT \/ ~Sprite_valid(pp.sprites[i])
    THEN [ppu |-> pp, pixel |-> ZERO, panicked |-> FALSE]
    ELSE IF pp.sprites[i].x < x - 7 /\ x < pp.sprites[i].x
    THEN sprite_pixel_from(pp, x, bg, i + 1, build)
    ELSE LET sprite == pp.sprites[i]
             big  == is_set(pp.controller, Controller_SPRITE_SIZE)
             row0 == Sprite_row(sprite, pp.line, IF big THEN 16 ELSE 8)
             col  == Sprite_col(sprite, x % 65536)
             idx0 == IF big THEN BitAnd(sprite.tile_index, 254) ELSE sprite.tile_index
             idx  == IF big /\ 7 < row0 THEN idx0 + 1 ELSE idx0
             row  == IF big /\ 7 < row0 THEN row0 - 8 ELSE row0
             base == IF big THEN idx % 2
                     ELSE IF is_set(pp.controller, Controller_SPRITE_TABLE_ADDR)
                     THEN 4096 ELSE 0
             sum  == base + idx * 16 + row
             tile_addr == sum % 65536
             low  == PPUBus_read(pp.bus, tile_addr)
             high == PPUBus_read(pp.bus, (tile_addr + 8) % 65536)
             pixel == nth(low, col % 8) + 2 * nth(high, col % 8)
             hit  == /\ i = 0 /\ pp.sprite_zero_on_line
                     /\ ~is_set(pp.status, Status_SPRITE_ZERO_HIT)
                     /\ sprite.x # 255 /\ x < 255 /\ bg.enabled
         IN  IF build = "debug" /\ sum + 8 > 65535
             THEN [ppu |-> pp, pixel |-> ZERO, panicked |-> TRUE]
             ELSE IF pixel = 0
             THEN sprite_pixel_from(pp, x, bg, i + 1, build)
             ELSE [ppu |-> IF hit
                           THEN [pp EXCEPT !.status = set(pp.status, Status_SPRITE_ZERO_HIT)]
                           ELSE pp,
                   pixel |-> [enabled |-> TRUE,
                              color |-> PPUBus_read(pp.bus,
                                            16144 + BitAnd(sprite.attr, 3) * 4 + pixel),
                              behide_background |-> is_set(sprite.attr, 32)],
                   panicked |-> FALSE]

\* PPU::get_sprite_pixel
get_sprite_pixel(pp, x, bg, build) ==
    IF ~is_enabled_sprite(pp, x)
    THEN [ppu |-> pp,
          pixel |-> [enabled |-> FALSE, color |-> 0, behide_background |-> TRUE],
          panicked |-> FALSE]
    ELSE sprite_pixel_from(pp, x, bg, 0, build)

\* PPU::step on a line of the picture, where the (0..=239, pre_rendered) arm
\* calls the pixel pipelines, and on every other line: the PPU after the
\* call, the background and sprite pixels of the dot, and whether the call
\* panicked (the PPU is then as the panic left it)
PPU_step_pixels(pp, build) ==
    IF step_arm(pp.line) # "render"
    THEN [ppu |-> PPU_step(pp).ppu,
          bg |-> [enabled |-> FALSE, color |-> 0],
          sprite |-> [enabled |-> FALSE, color |-> 0, behide_background |-> TRUE],
          x |-> (pp.dot - 2) % 65536, panicked |-> FALSE]
    ELSE LET x  == (pp.dot - 2) % 65536
             bg == get_background_pixel(pp, x)
             sp == get_sprite_pixel(bg.ppu, x, bg.pixel, build)
             fb == IF rendering_enabled(sp.ppu) /\ ~sp.panicked
                   THEN fetch_sprite_pixel(fetch_background_pixel(sp.ppu))
                   ELSE [ppu |-> sp.ppu, panicked |-> sp.panicked]
         IN  [ppu |-> IF fb.panicked THEN fb.ppu ELSE PPU_step(fb.ppu).ppu,
              bg |-> bg.pixel, sprite |-> sp.pixel, x |-> x,
              panicked |-> fb.panicked]

NoRender == [kind |-> "none", before |-> PPU_new,
             bg |-> [enabled |-> FALSE, color |-> 0],
             sprite |-> [enabled |-> FALSE, color |-> 0, behide_background |-> TRUE],
             x |-> 0, panicked |-> FALSE, build |-> "release"]

\* PPU::step, `dots` more times
RenderStep ==
    /\ dots > 0
    /\ ~last.panicked
    /\ LET r == PPU_step_pixels(ppu, last.build) IN
       /\ ppu' = r.ppu
       /\ last' = [kind |-> "step", before |-> ppu, bg |-> r.bg, sprite |-> r.sprite,
                   x |-> r.x, panicked |-> r.panicked, build |-> last.build]
    /\ dots' = dots - 1
    /\ UNCHANGED <<wram, rom, interrupt, cpu, cycles, host, current, calls, poll,
                   raised, frame_dots>>

NextRender == RenderStep

\* ============================================================== SpecVram
\* The PPU's address and data ports: PPUADDR, PPUDATA and the registers that
\* share or might disturb the write toggle, on a PPU bus that holds bytes in
\* CHR, the name tables and the palette.

\* bytes PPUDATA writes have left behind the PPU bus
VramCells ==
    [chr |-> (4131 :> 153 @@ 4112 :> 102),
     name_table |-> (0 :> 119 @@ 2048 :> 136 @@ 803 :> 17 @@ 574 :> 34 @@ 767 :> 51),
     pallete_ram_idx |-> (16 :> 42 @@ 3 :> 21 @@ 31 :> 59 @@ 30 :> 12)]

\* writes counts the PPUSCROLL and PPUADDR writes since the last PPUSTATUS
\* read, addrs the PPUADDR writes made in a row up to the operation (a read
\* keeps the count of the writes before it)
NoVram == [kind |-> "none", addr |-> 0, value |-> 0, result |-> 0,
           before |-> PPU_new, writes |-> 0, addrs |-> 0, prev |-> 0]

InitVram ==
    /\ interrupt = NO_INTERRUPT
    /\ cpu = [p |-> 0, cycles |-> 0]
    /\ \E controller \in {0, Controller_VRAM_ADDR_INCR},
          mirroring \in {"Horizontal", "Vertical"} :
        ppu = [PPU_new EXCEPT !.controller = controller,
                              !.bus = VramCells @@ [mirroring |-> mirroring]]
    /\ cycles = 0
    /\ rom = OP_BRK
    /\ wram = <<>>
    /\ host = "idle"
    /\ current = 0
    /\ calls = 0
    /\ dots = 0
    /\ poll = NoPoll
    /\ raised = FALSE
    /\ last = NoVram
    /\ frame_dots = [now |-> 0, done |-> 0]

\* PPU::read_register(PPUSTATUS) and PPU::read_register(PPUDATA)
VramRead ==
    /\ calls < MaxVramOps
    /\ \E addr \in {PPUSTATUS, PPUDATA, OAMDATA} :
        /\ addr = OAMDATA => ppu.object_attribute_memory_address < OAM_SIZE
        /\ LET r == PPU_read_register(ppu, addr) IN
           /\ ppu' = r.ppu
           /\ last' = [kind |-> "read", addr |-> addr, value |-> 0,
                       result |-> r.result, before |-> ppu,
                       writes |-> IF addr = PPUSTATUS THEN 0 ELSE last.writes,
                       addrs |-> last.addrs, prev |-> 0]
    /\ calls' = calls + 1
    /\ UNCHANGED <<wram, rom, interrupt, cpu, cycles, host, current, dots, poll, raised,
                   frame_dots>>

\* PPU::write_register
VramWrite ==
    /\ calls < MaxVramOps
    /\ \E w \in {<<PPUADDR, 16>>, <<PPUADDR, 35>>, <<PPUADDR, 62>>, <<PPUADDR, 255>>,
                 <<PPUSCROLL, 125>>, <<PPUDATA, 90>>, <<PPUCTRL, 4>>, <<PPUCTRL, 0>>,
                 <<PPUMASK, 30>>, <<OAMADDR, 255>>, <<OAMDATA, 95>>} :
        /\ w[1] = OAMDATA => ppu.object_attribute_memory_address < OAM_SIZE
        /\ ppu' = PPU_write_register(ppu, w[1], w[2])
        /\ last' = [kind |-> "write", addr |-> w[1], value |-> w[2], result |-> 0,
                    before |-> ppu,
                    writes |-> IF w[1] \in {PPUSCROLL, PPUADDR}
                               THEN last.writes + 1 ELSE last.writes,
                    addrs |-> IF w[1] # PPUADDR THEN 0
                              ELSE IF last.kind = "write" THEN last.addrs + 1
                              ELSE 1,
                    prev |-> last.value]
    /\ calls' = calls + 1
    /\ UNCHANGED <<wram, rom, interrupt, cpu, cycles, host, current, dots, poll, raised,
                   frame_dots>>

NextVram == VramRead \/ VramWrite

SpecVram == InitVram /\ [][NextVram]_vars

\* ============================================================= SpecTrace
\* Trace::new and Trace::to_string for the instruction at the CPU's pc, the
\* CPU's bus being the CPUBus (work RAM and PPU registers).

\* <dyn Memory>::read_on_indirect on the CPUBus: the PPU after its two reads
\* and the word read
Trace_read_on_indirect(w, pp, operand) ==
    LET low  == CPUBus_read(w, pp, operand)
        addr == ((operand \div 256) * 256) + ((operand + 1) % 256)
        high == CPUBus_read(w, low.ppu, addr)
    IN  [ppu |-> high.ppu, result |-> low.result + 256 * high.result]

\* Trace::new: the PPU after its four bus reads and the Trace built
Trace_new(w, pp, c) ==
    LET instruction == CPUBus_read(w, pp, c.pc)
        operation   == CPUBus_read(w, instruction.ppu, c.pc)
        operand_1   == CPUBus_read(w, operation.ppu, (c.pc + 1) % 65536)
        operand_2   == CPUBus_read(w, operand_1.ppu, (c.pc + 2) % 65536)
    IN  [ppu |-> operand_2.ppu,
         trace |-> [pc |-> c.pc, operation |-> operation.result,
                    operand_1 |-> operand_1.result, operand_2 |-> operand_2.result,
                    a |-> c.a, x |-> c.x, y |-> c.y, sp |-> c.s, p |-> c.p,
                    cycle |-> c.cycles, opcode |-> decode(instruction.result)]]

\* Trace::to_assembly_code: the PPU after the bus reads made for the operand
\* column, and the numbers that column shows, in order
to_assembly_code(w, pp, t) ==
    LET mode       == t.opcode.addressing_mode
        operand_16 == t.operand_1 + 256 * t.operand_2
        shown(addr, head) ==
            LET r == CPUBus_read(w, pp, addr)
            IN  [ppu |-> r.ppu, operand |-> Append(head, r.result)]
    IN  IF t.opcode.mnemonic \in {"JMP", "JSR"} /\ mode = "Absolute"
        THEN [ppu |-> pp, operand |-> <<operand_16>>]
        ELSE IF mode \in {"Implicit", "Accumulator"}
        THEN [ppu |-> pp, operand |-> <<>>]
        ELSE IF mode = "Immediate"
        THEN [ppu |-> pp, operand |-> <<t.operand_1>>]
        ELSE IF mode = "ZeroPage"
        THEN shown(t.operand_1, <<t.operand_1>>)
        ELSE IF mode = "ZeroPageX"
        THEN shown((t.operand_1 + t.x) % 256,
                   <<t.operand_1, (t.operand_1 + t.x) % 256>>)
        ELSE IF mode = "ZeroPageY"
        THEN shown((t.operand_1 + t.y) % 256,
                   <<t.operand_1, (t.operand_1 + t.y) % 256>>)
        ELSE IF mode = "Absolute"
        THEN shown(operand_16, <<operand_16>>)
        ELSE IF mode = "AbsoluteX"
        THEN shown((operand_16 + t.x) % 65536,
                   <<operand_16, (operand_16 + t.x) % 65536>>)
        ELSE IF mode = "AbsoluteY"
        THEN shown((operand_16 + t.y) % 65536,
                   <<operand_16, (operand_16 + t.y) % 65536>>)
        ELSE IF mode = "Relative"
        THEN [ppu |-> pp,
              operand |-> <<(t.pc + 2 + t.operand_1
                             - (IF t.operand_1 >= 128 THEN 256 ELSE 0)) % 65536>>]
        ELSE IF mode = "Indirect"
        THEN LET r == Trace_read_on_indirect(w, pp, operand_16)
             IN  [ppu |-> r.ppu, operand |-> <<operand_16, r.result>>]
        ELSE IF mode = "IndexedIndirect"
        THEN LET operand_x == (t.operand_1 + t.x) % 256
                 addr == Trace_read_on_indirect(w, pp, operand_x)
                 r    == CPUBus_read(w, addr.ppu, addr.result)
             IN  [ppu |-> r.ppu,
                  operand |-> <<t.operand_1, operand_x, addr.result, r.result>>]
        ELSE LET addr == Trace_read_on_indirect(w, pp, t.operand_1)
                 r    == CPUBus_read(w, addr.ppu, (addr.result + t.y) % 65536)
             IN  [ppu |-> r.ppu,
                  operand |-> <<t.operand_1, addr.result,
                                (addr.result + t.y) % 65536, r.result>>]

\* one opcode of each addressing mode, with loads, a store, the jumps and BRK
TraceOpcodes == {169, 165, 181, 182, 173, 189, 185, 76, 32, 108, 161, 177, 240,
                 234, 10, 141, 44, 0}

\* the zero-page cells the traced instructions find their pointers in
TraceZeroPage == 2 :> 2 @@ 3 :> 32 @@ 7 :> 7 @@ 8 :> 63 @@ 255 :> 2 @@ 0 :> 32

NoTrace == [kind |-> "none", addr |-> 0, value |-> 0, result |-> 0,
            before |-> PPU_new, after_status_read |-> FALSE,
            pc |-> 0, mode |-> "", operand |-> <<>>]

\* The instruction lies in work RAM at $0200 or at $1FFE, the last two bytes
\* of work RAM; its operand bytes point into work RAM ($00xx) or into the PPU
\* register window ($20xx, $3Fxx).  The PPU stands at the start of vertical
\* blanking as in SpecReg.
InitTrace ==
    /\ interrupt = NO_INTERRUPT
    /\ \E opcode \in TraceOpcodes, lo \in {2, 7, 255}, hi \in {0, 32, 63},
          pc \in {512, 8190}, xy \in {0, 1} :
        /\ cpu = [pc |-> pc, a |-> 90, x |-> xy, y |-> xy, s |-> 253, p |-> 36,
                  cycles |-> 7]
        /\ wram = (IF pc + 2 <= 8191 THEN (pc + 2) :> hi ELSE <<>>)
                  @@ (pc :> opcode) @@ ((pc + 1) :> lo) @@ TraceZeroPage
    /\ \E st \in RegStarts :
        ppu = [PPU_new EXCEPT !.line = 241, !.dot = 0, !.frames = st.frames,
                              !.status = st.status]
    /\ cycles = 0
    /\ rom = OP_BRK
    /\ host = "idle"
    /\ current = 0
    /\ calls = 0
    /\ dots = 0
    /\ poll = NoPoll
    /\ raised = FALSE
    /\ last = NoTrace
    /\ frame_dots = [now |-> 0, done |-> 0]

\* Trace::new(&cpu) followed by Trace::to_string(&cpu)
TraceStep ==
    /\ last.kind # "trace"
    /\ LET n == Trace_new(wram, ppu, cpu)
           s == to_assembly_code(wram, n.ppu, n.trace)
       IN  /\ ppu' = s.ppu
           /\ last' = [NoTrace EXCEPT !.kind = "trace", !.before = ppu,
                                      !.pc = n.trace.pc,
                                      !.mode = n.trace.opcode.addressing_mode,
                                      !.operand = s.operand]
    /\ UNCHANGED <<wram, rom, interrupt, cpu, cycles, host, current, calls, dots, poll,
                   raised, frame_dots>>

\* the traces of a program that also reaches the PPU by PPU::read_register
NextTrace == TraceStep \/ RegRead

SpecTrace == InitTrace /\ [][NextTrace]_vars

\* ========================================================= SpecNameTable
\* The PPUBus written and read in its nametable region $2000-$2FFF.

\* the first two, the last and a middle address of each of the four nametables
NameTableAddrs == {8192 + 1024 * n + k : n \in 0..3, k \in {0, 1, 512, 1023}}

InitNameTable ==
    /\ interrupt = NO_INTERRUPT
    /\ cpu = [p |-> 0, cycles |-> 0]
    /\ \E mirroring \in {"Horizontal", "Vertical"} :
        ppu = [PPU_new EXCEPT !.bus.mirroring = mirroring]
    /\ cycles = 0
    /\ rom = OP_BRK
    /\ wram = <<>>
    /\ host = "idle"
    /\ current = 0
    /\ calls = 0
    /\ dots = 0
    /\ poll = NoPoll
    /\ raised = FALSE
    /\ last = NoVram
    /\ frame_dots = [now |-> 0, done |-> 0]

\* <PPUBus as Memory>::write at a nametable address
NameTableWrite ==
    /\ calls < MaxNameTableWrites
    /\ \E addr \in NameTableAddrs, value \in {90, 165} :
        /\ ppu' = [ppu EXCEPT !.bus = PPUBus_write(ppu.bus, addr, value)]
        /\ last' = [NoVram EXCEPT !.kind = "write", !.addr = addr, !.value = value,
                                  !.before = ppu]
    /\ calls' = calls + 1
    /\ UNCHANGED <<wram, rom, interrupt, cpu, cycles, host, current, dots, poll, raised,
                   frame_dots>>

NextNameTable == NameTableWrite

SpecNameTable == InitNameTable /\ [][NextNameTable]_vars

\* ============================================================= SpecScroll
\* PPU::step around the Y increment of a picture line and through the dots
\* 280..=304 of the pre-render line, background rendering on.

\* v and t are any 15-bit addresses: PPUSCROLL, PPUCTRL and PPUADDR writes
\* made before (see SpecAddr) put every coarse X, coarse Y, fine Y and
\* nametable pair into t, and the second PPUADDR write copies t to v.  The
\* scan stands 8 dots before the Y increment of a picture line, or one dot
\* before dot 280 of the pre-render line.
InitScroll ==
    /\ interrupt = NO_INTERRUPT
    /\ cpu = [p |-> 0, cycles |-> 0]
    /\ \E start \in {<<0, 249>>, <<239, 249>>, <<261, 279>>},
          fine_y \in {0, 6, 7}, coarse_y \in {0, 28, 29, 30, 31},
          coarse_x \in {0, 28, 29, 31}, name_table \in 0..3,
          t \in {0, 31712, 32767} :
        ppu = [PPU_new EXCEPT
                 !.line = start[1], !.dot = start[2], !.mask = Mask_BACKGROUND,
                 !.v = fine_y * 4096 + name_table * 1024 + coarse_y * 32 + coarse_x,
                 !.t = t]
    /\ cycles = 0
    /\ rom = OP_BRK
    /\ wram = <<>>
    /\ host = "idle"
    /\ current = 0
    /\ calls = 0
    /\ dots = MaxScrollSteps
    /\ poll = NoPoll
    /\ raised = FALSE
    /\ last = NoRender
    /\ frame_dots = [now |-> 0, done |-> 0]

SpecScroll == InitScroll /\ [][NextRender]_vars

\* =============================================================== SpecAddr
\* PPUCTRL, PPUMASK, PPUSCROLL, PPUADDR and PPUDATA accesses from PPU::new
\* on, with PPU::step at the dots of the coarse X increment, the Y increment
\* and the copy of the horizontal bits.

\* PPU::new, the scan at dot 248 or dot 256 of line 0 (steps with rendering
\* off lead there and change nothing else)
InitAddr ==
    /\ interrupt = NO_INTERRUPT
    /\ cpu = [p |-> 0, cycles |-> 0]
    /\ \E dot \in {248, 256} : ppu = [PPU_new EXCEPT !.dot = dot]
    /\ cycles = 0
    /\ rom = OP_BRK
    /\ wram = <<>>
    /\ host = "idle"
    /\ current = 0
    /\ calls = 0
    /\ dots = MaxAddrSteps
    /\ poll = NoPoll
    /\ raised = FALSE
    /\ last = NoRender
    /\ frame_dots = [now |-> 0, done |-> 0]

\* PPU::write_register
AddrWrite ==
    /\ calls < MaxAddrOps
    /\ ~last.panicked
    /\ \E w \in {<<PPUCTRL, 4>>, <<PPUCTRL, 3>>, <<PPUMASK, 8>>, <<PPUSCROLL, 255>>,
                 <<PPUADDR, 63>>, <<PPUADDR, 255>>, <<PPUDATA, 0>>} :
        ppu' = PPU_write_register(ppu, w[1], w[2])
    /\ last' = [last EXCEPT !.kind = "write", !.before = ppu]
    /\ calls' = calls + 1
    /\ UNCHANGED <<wram, rom, interrupt, cpu, cycles, host, current, dots, poll, raised,
                   frame_dots>>

\* PPU::read_register
AddrRead ==
    /\ calls < MaxAddrOps
    /\ ~last.panicked
    /\ \E addr \in {PPUSTATUS, PPUDATA} : ppu' = PPU_read_register(ppu, addr).ppu
    /\ last' = [last EXCEPT !.kind = "read", !.before = ppu]
    /\ calls' = calls + 1
    /\ UNCHANGED <<wram, rom, interrupt, cpu, cycles, host, current, dots, poll, raised,
                   frame_dots>>

NextAddr == AddrWrite \/ AddrRead \/ RenderStep

SpecAddr == InitAddr /\ [][NextAddr]_vars

\* ============================================================== SpecPixel
\* PPU::step from the tile prefetch of picture line 9 through line 10 and
\* into line 11, over pattern tables with opaque tiles.

\* PPU::new with the pattern tables, palette and OAM bytes of a program, stepped
\* with rendering off to dot 321 of line 9, where a PPUMASK write turns the
\* layers on.  OAM entry 1 (Y = 8) is in range on lines 10 and 11; entry 0 is
\* below the picture (Y = 240) or in range (Y = 4, Y = 10); the entries after
\* them are at Y = 0, out of range; or OAM is untouched since PPU::new.
InitPixel ==
    /\ interrupt = NO_INTERRUPT
    /\ cpu = [p |-> 0, cycles |-> 0]
    /\ \E mask \in {Mask_BACKGROUND, Mask_BACKGROUND + Mask_BACKGROUND_LEFT,
                    Mask_BACKGROUND + Mask_SPRITE,
                    Mask_BACKGROUND + Mask_SPRITE + Mask_BACKGROUND_LEFT + Mask_SPRITE_LEFT},
          fine_x \in {0, 5},
          oam \in {<<>>} \cup {(0 :> y0 @@ 1 :> 1 @@ 3 :> x0 @@ 4 :> 8 @@ 5 :> 1 @@ 7 :> 16) :
                               y0 \in {240, 4, 10}, x0 \in {0, 255}} :
        ppu = [PPU_new EXCEPT
                 !.line = 9, !.dot = 321, !.mask = mask, !.fine_x = fine_x,
                 !.primary_oam = oam,
                 !.bus.chr = [a \in 0..255 |-> 255],
                 !.bus.pallete_ram_idx = (3 :> 33 @@ 19 :> 22 @@ 23 :> 39)]
    /\ cycles = 0
    /\ rom = OP_BRK
    /\ wram = <<>>
    /\ host = "idle"
    /\ current = 0
    /\ calls = 0
    /\ dots = MaxPixelSteps
    /\ poll = NoPoll
    /\ raised = FALSE
    /\ \E build \in {"debug", "release"} : last = [NoRender EXCEPT !.build = build]
    /\ frame_dots = [now |-> 0, done |-> 0]

SpecPixel == InitPixel /\ [][NextRender]_vars

\* =============================================================== SpecCall
\* JSR and the instruction at its target, on a [u8; 0x10000], from every
\* stack pointer.

\* The CPU about to run a JSR placed at p, an RTS at its target.  p is in
\* work RAM, in the stack page ($01FD), in the program, or at the top of the
\* address space ($FFFD, $FFFF); the target is in the program or in the stack
\* page ($0180), where the pushes of some stack pointers overwrite the RTS.
InitCall ==
    /\ interrupt = NO_INTERRUPT
    /\ \E p \in {512, 509, 33022, 65533, 65535}, target \in {16384, 49407, 384},
          s \in 0..255 :
        LET c == ExecStart(32, target % 256, target \div 256, p, 90, 0, 0, 36)
        IN  cpu = [c EXCEPT !.s = s, !.bus.ram = (target :> 96) @@ c.bus.ram]
    /\ ppu = PPU_new
    /\ cycles = 0
    /\ rom = OP_BRK
    /\ wram = <<>>
    /\ host = "idle"
    /\ current = 0
    /\ calls = 0
    /\ dots = 0
    /\ poll = NoPoll
    /\ raised = FALSE
    /\ last = NoCpu
    /\ frame_dots = [now |-> 0, done |-> 0]

\* CPU::step
CallStep ==
    /\ calls < MaxCallSteps
    /\ cpu' = step([cpu EXCEPT !.log = <<>>, !.reads = <<>>])
    /\ last' = cpu_op("step", decode(mem_at(cpu.bus, cpu.pc)).mnemonic)
    /\ calls' = calls + 1
    /\ UNCHANGED <<wram, rom, interrupt, ppu, cycles, host, current, dots, poll, raised,
                   frame_dots>>

NextCall == CallStep

SpecCall == InitCall /\ [][NextCall]_vars

\* ================================================================= claims

\* C1: in Spec, the number of PPU::step calls NES::step has made is three
\* times the CPU cycles consumed since construction, the seven cycles of an
\* interrupt entry included: dots = 3 * cpu.cycles, and NES.cycles follows
\* the CPU counter.  Holding in every state, it holds for each NES::step.
C1_DotsAreThreeTimesCycles ==
    /\ dots = 3 * cpu.cycles
    /\ cycles = cpu.cycles

\* a step whose poll entered NMI (7 cycles) and ran an instruction after it
C1_Witness ==
    /\ poll.serviced = NMI
    /\ dots > 0
    /\ dots = 3 * cpu.cycles

\* C2 as stated: a cpu_step whose poll serviced an interrupt executed no
\* instruction.
C2_NoInstructionAfterEntry ==
    poll.serviced # NO_INTERRUPT => ~poll.executed

\* C2 amended: every cpu_step that has run executed one instruction after its
\* poll, whether or not the poll serviced an interrupt.
C2_InstructionEveryStep ==
    cpu.cycles > 0 => poll.executed

\* a cpu_step that entered reset and then executed an instruction
C2_Witness ==
    /\ poll.serviced = RESET
    /\ poll.executed

\* C3 as stated: an IRQ is serviced only when the I flag was clear at the
\* poll; with I set and IRQ the highest pending bit, nothing is serviced and
\* IRQ stays in the latch.
C3_IrqOnlyWhenIClear ==
    /\ poll.serviced = IRQ => ~is_set(poll.p, CPUStatus_I)
    /\ (calls > 0 /\ is_set(poll.pending, IRQ) /\ poll.pending < NMI
        /\ is_set(poll.p, CPUStatus_I))
       => (poll.serviced = NO_INTERRUPT /\ is_set(interrupt, IRQ))

C5_NmiLatched ==
    /\ [](raised => is_set(interrupt, NMI))
    /\ [](poll.serviced = NMI => is_set(poll.pending, NMI))
    /\ []((is_set(poll.pending, NMI) /\ ~is_set(poll.pending, RESET))
          => poll.serviced = NMI)
    /\ [][(is_set(interrupt, NMI) /\ ~is_set(interrupt', NMI))
          => (poll'.serviced = NMI /\ is_set(poll'.pending, NMI))]_vars

\* the poll after a step in which the PPU returned NMI entered NMI and
\* cleared the bit
C5_Witness ==
    /\ poll.serviced = NMI
    /\ ~is_set(poll.pending, RESET)
    /\ ~is_set(interrupt, NMI)

C7_ScanAdvance ==
    /\ ppu.dot \in 0..340
    /\ ppu.line \in 0..261
    /\ last.done =>
        /\ ppu.dot = (last.dot + 1) % 341
        /\ (ppu.line # last.line) <=> (ppu.dot = 0)
        /\ ppu.dot = 0 => ppu.line = (last.line + 1) % 262
        /\ (last.line = 261 /\ ppu.line = 0) <=> (ppu.frames = last.frames + 1)

\* C8 as stated: the PPU::step calls between two increments of the frame
\* counter number 89342 when the frame that ended was odd and rendering is
\* enabled, and 89343 otherwise.
C8_FrameLength ==
    (last.done /\ ppu.frames = last.frames + 1) =>
        frame_dots.done = IF last.frames % 2 = 1 /\ rendering_enabled(ppu)
                          THEN 89342 ELSE 89343

\* C9: a PPU::step at line 241, dot 1 leaves VBLANK set and returns NMI
\* exactly when the NMI bit of PPUCTRL is set; a PPU::step anywhere else
\* returns no interrupt and does not set VBLANK.
C9_VblankAndNmi ==
    last.done =>
        IF last.line = 241 /\ last.dot = 1
        THEN /\ is_set(ppu.status, Status_VBLANK)
             /\ last.ret = (IF is_set(last.controller, Controller_NMI)
                            THEN NMI ELSE NO_INTERRUPT)
        ELSE /\ last.ret = NO_INTERRUPT
             /\ is_set(ppu.status, Status_VBLANK) => is_set(last.status, Status_VBLANK)

\* the step at line 241, dot 1 with the NMI bit of PPUCTRL set
C9_Witness ==
    /\ last.done
    /\ last.line = 241
    /\ last.dot = 1
    /\ last.ret = NMI
    /\ is_set(ppu.status, Status_VBLANK)

\* C10 as stated: after the PPU::step at line 261, dot 1 the flags VBLANK,
\* SPRITE_ZERO_HIT and SPRITE_OVERFLOW are clear, and they are clear
\* at line 0 of a frame that follows another.
C10_PreRenderClears ==
    /\ (last.done /\ last.line = 261 /\ last.dot = 1)
       => BitAnd(ppu.status, Status_VBLANK + Status_SPRITE_ZERO_HIT
                             + Status_SPRITE_OVERFLOW) = 0
    /\ (ppu.frames > 0 /\ ppu.line = 0)
       => BitAnd(ppu.status, Status_VBLANK + Status_SPRITE_ZERO_HIT
                             + Status_SPRITE_OVERFLOW) = 0

\* C11 as stated: a read of PPUSTATUS returns VBLANK, SPRITE_ZERO_HIT and
\* SPRITE_OVERFLOW as they were before the read in bits 7..5 with the low five
\* bits of the internal data bus; after it VBLANK is clear and the write toggle
\* is 0; SPRITE_ZERO_HIT, SPRITE_OVERFLOW, v, t and fine x are unchanged.
C11_StatusRead ==
    (last.kind = "read" /\ last.addr = PPUSTATUS) =>
        /\ last.result = BitOr(BitAnd(last.before.status, 224),
                               BitAnd(last.before.internal_data_bus, 31))
        /\ ~is_set(ppu.status, Status_VBLANK)
        /\ ~ppu.write_toggle
        /\ BitAnd(ppu.status, 96) = BitAnd(last.before.status, 96)
        /\ ppu.v = last.before.v
        /\ ppu.t = last.before.t
        /\ ppu.fine_x = last.before.fine_x

\* C12 as stated: when PPUSTATUS is read at line 241 just before the dot-1
\* step, the read returns VBLANK = 0 and the PPU::step that follows does not
\* leave VBLANK set.
C12_VblankSuppressed ==
    /\ (last.kind = "read" /\ last.addr = PPUSTATUS
        /\ last.before.line = 241 /\ last.before.dot = 1)
       => ~is_set(last.result, Status_VBLANK)
    /\ (last.kind = "step" /\ last.after_status_read
        /\ last.before.line = 241 /\ last.before.dot = 1)
       => ~is_set(ppu.status, Status_VBLANK)

\* C13 as stated: CPU work RAM is mirrored every 0x0800 across 0x0000-0x1FFF:
\* after write(a, v), a read of any b with (b & 0x07FF) = (a & 0x07FF)
\* returns v.
C13_WramMirrored ==
    (/\ last.kind = "read" /\ last.addr <= 8191
     /\ last.prev.kind = "write" /\ last.prev.addr <= 8191
     /\ BitAnd(last.addr, 2047) = BitAnd(last.prev.addr, 2047))
    => last.result = last.prev.value

\* C14 as stated: a CPU-bus read or write at a in 0x2000-0x3FFF has the effect
\* of the PPU register operation for port a & 7: the PPU afterwards and the
\* byte read are those of read_register / write_register at 0x2000 + (a & 7).
C14_PpuPorts ==
    /\ (last.kind = "read" /\ 8192 <= last.addr /\ last.addr <= 16383) =>
            LET port == PPU_read_register(last.before, 8192 + BitAnd(last.addr, 7))
            IN  ppu = port.ppu /\ last.result = port.result
    /\ (last.kind = "write" /\ 8192 <= last.addr /\ last.addr <= 16383) =>
            ppu = PPU_write_register(last.before, 8192 + BitAnd(last.addr, 7),
                                     last.value)

\* C15: CPU::reset advances cycles by exactly 7, sets I and leaves the other
\* status bits, loads PC with the little-endian word at $FFFC/$FFFD, lowers S
\* by 3 modulo 256, leaves A, X and Y alone and writes no memory.
C15_Reset ==
    last.kind = "reset" =>
        /\ cpu.cycles = last.before.cycles + 7
        /\ cpu.p = BitOr(last.before.p, 4)
        /\ cpu.pc = mem_at(last.before.bus, 65532)
                    + 256 * mem_at(last.before.bus, 65533)
        /\ cpu.s = (last.before.s + 253) % 256
        /\ cpu.a = last.before.a /\ cpu.x = last.before.x /\ cpu.y = last.before.y
        /\ cpu.log = <<>>
        /\ cpu.bus = last.before.bus

\* a reset taken with I clear and S = 1, so that S wraps to 0xFE
C15_Witness ==
    /\ last.kind = "reset"
    /\ ~is_set(last.before.p, CPUStatus_I)
    /\ last.before.s = 1
    /\ cpu.s = 254
    /\ cpu.pc = 32820

\* C16: NMI entry and IRQ entry each take 7 cycles, write PCH, PCL and then
\* the status byte at 0x0100 + S, S-1 and S-2 (modulo 256), lower S by 3, set
\* I, load PC from $FFFA/$FFFB (NMI) or $FFFE/$FFFF (IRQ) and leave A, X, Y.
\* (Bits 5 and 4 of the status byte written are the subject of C17.)
C16_InterruptEntry ==
    last.kind \in {"nmi", "irq"} =>
        LET b == last.before
            vector == IF last.kind = "nmi" THEN 65530 ELSE 65534
        IN  /\ cpu.cycles = b.cycles + 7
            /\ Len(cpu.log) = 3
            /\ cpu.log[1] = <<256 + b.s, b.pc \div 256>>
            /\ cpu.log[2] = <<256 + ((b.s + 255) % 256), b.pc % 256>>
            /\ cpu.log[3][1] = 256 + ((b.s + 254) % 256)
            /\ BitAnd(cpu.log[3][2], 207) = BitAnd(b.p, 207)
            /\ cpu.s = (b.s + 253) % 256
            /\ cpu.p = BitOr(b.p, 4)
            /\ cpu.pc = mem_at(b.bus, vector) + 256 * mem_at(b.bus, vector + 1)
            /\ cpu.a = b.a /\ cpu.x = b.x /\ cpu.y = b.y

\* an IRQ entry taken at S = 1: the pushes go to $0101, $0100 and $01FF
C16_Witness ==
    /\ last.kind = "irq"
    /\ last.before.s = 1
    /\ last.before.pc = 33023
    /\ cpu.log[3][1] = 511
    /\ cpu.pc = 41046

\* C17 as stated: the status byte written to the stack has bit 5 = 1 always,
\* bit 4 = 1 when pushed by PHP or BRK and bit 4 = 0 when pushed by NMI or
\* IRQ entry.
C17_PushedStatusBits ==
    /\ last.kind \in {"nmi", "irq"} =>
            /\ is_set(cpu.log[3][2], CPUStatus_R)
            /\ ~is_set(cpu.log[3][2], CPUStatus_B)
    /\ (last.kind = "step" /\ last.mnemonic = "PHP") =>
            /\ is_set(cpu.log[1][2], CPUStatus_R)
            /\ is_set(cpu.log[1][2], CPUStatus_B)
    /\ (last.kind = "break" \/ (last.kind = "step" /\ last.mnemonic = "BRK")) =>
            /\ is_set(cpu.log[3][2], CPUStatus_R)
            /\ is_set(cpu.log[3][2], CPUStatus_B)

\* C18 as stated: BRK executed at address p through CPU::step takes 7 cycles,
\* pushes the return address p + 2, sets I and loads PC from $FFFE/$FFFF.
C18_BrkInstruction ==
    (last.kind = "step" /\ last.mnemonic = "BRK") =>
        LET b == last.before
            ret == (b.pc + 2) % 65536
        IN  /\ cpu.cycles = b.cycles + 7
            /\ cpu.log[1] = <<256 + b.s, ret \div 256>>
            /\ cpu.log[2] = <<256 + ((b.s + 255) % 256), ret % 256>>
            /\ is_set(cpu.p, CPUStatus_I)
            /\ cpu.pc = mem_at(b.bus, 65534) + 256 * mem_at(b.bus, 65535)

\* C19: for every P, PHP then PLP leaves S as it was and every bit of P as it
\* was except bit 4 = 0 and bit 5 = 1; PLP and RTI always leave bit 5 = 1 and
\* bit 4 = 0, whatever byte is pulled.
C19_PhpPlp ==
    /\ (/\ last.kind = "step" /\ last.mnemonic = "PLP"
        /\ last.prev.kind = "step" /\ last.prev.mnemonic = "PHP") =>
            /\ cpu.s = last.prev.before.s
            /\ BitAnd(cpu.p, 207) = BitAnd(last.prev.before.p, 207)
    /\ (last.kind = "step" /\ last.mnemonic \in {"PLP", "RTI"}) =>
            /\ is_set(cpu.p, CPUStatus_R)
            /\ ~is_set(cpu.p, CPUStatus_B)

\* PHP then PLP from P = 0x34, and the P they leave
C19_Witness ==
    /\ last.kind = "step" /\ last.mnemonic = "PLP"
    /\ last.prev.kind = "step" /\ last.prev.mnemonic = "PHP"
    /\ last.prev.before.p = 52
    /\ cpu.p = 36

\* C20: push_stack writes at 0x0100 + S and then lowers S modulo 256 (from
\* S = 0x00 it writes $0100 and S becomes 0xFF); pull_stack raises S and then
\* reads 0x0100 + S; for every starting S and n <= 256, n pushes followed by
\* n pulls pull the pushed bytes in reverse and return S to its start;
\* push_stack_word then pull_stack_word returns every 16-bit value and S.
C20_StackLifo ==
    LET n == Len(last.pushed)
        k == Len(last.pulled)
    IN  /\ (n > 0 /\ k = 0) =>
               /\ cpu.log = << <<256 + ((last.start + 256 * n - n + 1) % 256),
                                last.pushed[n]>> >>
               /\ cpu.s = (last.start + 256 * n - n) % 256
        /\ n <= 256 =>
               /\ \A i \in 1..k : last.pulled[i] = last.pushed[n - i + 1]
               /\ k > 0 => cpu.s = (last.start + 256 * n - n + k) % 256
               /\ (k = n /\ last.word = -1) => cpu.s = last.start
        /\ last.got # -1 => (last.got = last.word /\ cpu.s = last.start)

\* 256 bytes pushed from S = 0x00 and pulled again, the first one last
C20_Witness ==
    /\ last.start = 0
    /\ Len(last.pushed) = 256
    /\ Len(last.pulled) = 256
    /\ last.pulled[256] = last.pushed[1]
    /\ last.pushed[1] # last.pushed[256]

\* ------------------------------------------------------------------ C21
\* the instruction CPU::step has just run in SpecExec and SpecAlu: its opcode
\* record, the CPU before it and its operand bytes
Ran == last.kind = "step"
RanOp == decode(mem_at(last.before.bus, last.before.pc))
RanLo == mem_at(last.before.bus, (last.before.pc + 1) % 65536)
RanHi == mem_at(last.before.bus, (last.before.pc + 2) % 65536)

\* the address an instruction accesses first after its operand fetch made
\* fetched reads: the next read, or the first write when it reads nothing more
FirstAccess(fetched) ==
    IF Len(cpu.reads) > fetched /\ cpu.reads[fetched + 1][2] = 0
    THEN cpu.reads[fetched + 1][1]
    ELSE cpu.log[1][1]

\* C21: every 16-bit pointer an indirect mode reads at q has its low byte
\* read from q and its high byte from the same page, at (q & 0xFF00) |
\* ((q + 1) & 0x00FF), for Indirect, IndexedIndirect and IndirectIndexed
\* alike; the pointer so read is where JMP goes and what the other
\* instructions access (plus Y for IndirectIndexed).  JMP ($30FF) with
\* $30FF = $40, $3000 = $80, $3100 = $50 sets PC = $8040 in 5 cycles.
C21_IndirectPageWrap ==
    Ran /\ RanOp.addressing_mode \in {"Indirect", "IndexedIndirect", "IndirectIndexed"}
    => LET b       == last.before
           mode    == RanOp.addressing_mode
           q       == IF mode = "Indirect" THEN RanLo + 256 * RanHi
                      ELSE IF mode = "IndexedIndirect" THEN (RanLo + b.x) % 256
                      ELSE RanLo
           high    == (q \div 256) * 256 + ((q + 1) % 256)
           pointer == mem_at(b.bus, q) + 256 * mem_at(b.bus, high)
           k       == IF mode = "Indirect" THEN 3 ELSE 2
       IN  /\ cpu.reads[k + 1] = <<q, 0>>
           /\ cpu.reads[k + 2] = <<high, 0>>
           /\ IF RanOp.mnemonic = "JMP"
              THEN /\ cpu.pc = pointer
                   /\ Len(cpu.reads) = 5 /\ cpu.log = <<>>
                   /\ cpu.cycles = b.cycles + 5
                   /\ q = 12543 => cpu.pc = 32832
              ELSE FirstAccess(k + 2) =
                      IF mode = "IndirectIndexed" THEN (pointer + b.y) % 65536
                      ELSE pointer

\* JMP ($30FF) has run, and a zero-page pointer at $FF has been read
C21_Witness ==
    /\ Ran /\ RanOp.mnemonic = "JMP" /\ RanOp.addressing_mode = "Indirect"
    /\ RanLo = 255 /\ RanHi = 48
    /\ cpu.pc = 32832 /\ cpu.cycles = last.before.cycles + 5

\* ------------------------------------------------------------------ C22
\* BEQ +4 has run from PC = $80FE with Z set
RanBeqExample ==
    /\ Ran /\ RanOp.mnemonic = "BEQ" /\ RanLo = 4
    /\ last.before.pc = 33022 /\ is_set(last.before.p, CPUStatus_Z)

\* C22 as stated: the branch leaves PC = $8104 and consumes exactly 4 cycles
C22_AsStated ==
    RanBeqExample => cpu.pc = 33028 /\ cpu.cycles = last.before.cycles + 4

\* C22: with PC = $80FE and Z = 1, BEQ +4 leaves PC = $8104 and consumes
\* exactly 3 cycles: 1 fetch, 1 operand, 1 for the taken branch, and none for
\* a page crossing, since the target $8104 lies in the page of $8100, the PC
\* after the operand fetch
C22_BeqExample ==
    RanBeqExample => cpu.pc = 33028 /\ cpu.cycles = last.before.cycles + 3

C22_Witness ==
    RanBeqExample /\ cpu.pc = 33028 /\ cpu.cycles = last.before.cycles + 3

\* ------------------------------------------------------------------ C23
\* the flag each branch mnemonic tests and the value it branches on
BranchTests ==
    [BCC |-> <<CPUStatus_C, FALSE>>, BCS |-> <<CPUStatus_C, TRUE>>,
     BEQ |-> <<CPUStatus_Z, TRUE>>,  BNE |-> <<CPUStatus_Z, FALSE>>,
     BMI |-> <<CPUStatus_N, TRUE>>,  BPL |-> <<CPUStatus_N, FALSE>>,
     BVS |-> <<CPUStatus_V, TRUE>>,  BVC |-> <<CPUStatus_V, FALSE>>]

\* a branch has run; RanTaken: its condition held
RanBranch == Ran /\ RanOp.mnemonic \in DOMAIN BranchTests
RanTaken ==
    (last.before.p \div BranchTests[RanOp.mnemonic][1]) % 2
        = (IF BranchTests[RanOp.mnemonic][2] THEN 1 ELSE 0)

\* C23: for every branch opcode, PC and signed 8-bit offset, a branch not
\* taken costs 2 cycles and leaves PC just past the operand; a branch taken
\* sets PC = (PC after the operand fetch + offset) mod 0x10000 and costs 3
\* cycles when that target lies in the 256-byte page of the PC after the
\* operand fetch, 4 cycles otherwise
C23_BranchTiming ==
    RanBranch
    => LET b      == last.before
           past   == (b.pc + 2) % 65536
           offset == IF RanLo >= 128 THEN RanLo - 256 ELSE RanLo
           target == (past + offset + 65536) % 65536
       IN  IF RanTaken
           THEN /\ cpu.pc = target
                /\ cpu.cycles = b.cycles
                       + (IF target \div 256 = past \div 256 THEN 3 ELSE 4)
           ELSE cpu.pc = past /\ cpu.cycles = b.cycles + 2

\* a branch taken backwards across a page boundary has cost 4 cycles
C23_Witness ==
    /\ RanBranch /\ RanTaken /\ RanLo >= 128
    /\ cpu.pc \div 256 # ((last.before.pc + 2) % 65536) \div 256
    /\ cpu.cycles = last.before.cycles + 4

\* ------------------------------------------------------------------ C24
\* the accumulator and N V Z C an addition of A, M and the carry in C leaves,
\* with every other bit of the status byte p kept
Added(A, M, C, p) ==
    LET sum    == A + M + C
        result == sum % 256
        flag(s, on) == IF on THEN s ELSE 0
        kept   == p - ((p \div 128) % 2) * 128 - ((p \div 64) % 2) * 64
                    - ((p \div 2) % 2) * 2 - (p % 2)
    IN  [a |-> result,
         p |-> kept
               + flag(CPUStatus_C, sum > 255)
               + flag(CPUStatus_V, /\ A \div 128 # result \div 128
                                   /\ M \div 128 # result \div 128)
               + flag(CPUStatus_Z, result = 0)
               + flag(CPUStatus_N, result \div 128 = 1)]

\* C24: for all A, M and carry-in C, ADC leaves A = (A + M + C) mod 256,
\* C = 1 iff the sum exceeds 255, V = 1 iff ((A ^ result) & (M ^ result) &
\* 0x80) != 0, Z and N from the result, whatever the D flag, which like I is
\* left as it was (A = $50, M = $50, C = 0 gives A = $A0, N = 1, V = 1, C = 0,
\* Z = 0); SBC does the same with M bit-inverted
C24_AdcSbc ==
    Ran /\ RanOp.mnemonic \in {"ADC", "SBC"} /\ RanOp.addressing_mode = "Immediate"
    => LET b == last.before
           M == IF RanOp.mnemonic = "ADC" THEN RanLo ELSE 255 - RanLo
           r == Added(b.a, M, b.p % 2, b.p)
       IN  /\ cpu.a = r.a
           /\ cpu.p = r.p
           /\ (RanOp.mnemonic = "ADC" /\ b.a = 80 /\ RanLo = 80 /\ b.p % 2 = 0)
              => /\ cpu.a = 160
                 /\ is_set(cpu.p, CPUStatus_N) /\ is_set(cpu.p, CPUStatus_V)
                 /\ ~is_set(cpu.p, CPUStatus_C) /\ ~is_set(cpu.p, CPUStatus_Z)

\* ADC of $50 + $50 with the D flag set has run
C24_Witness ==
    /\ Ran /\ RanOp.mnemonic = "ADC" /\ last.before.a = 80 /\ RanLo = 80
    /\ is_set(last.before.p, CPUStatus_D) /\ ~is_set(last.before.p, CPUStatus_C)
    /\ cpu.a = 160 /\ is_set(cpu.p, CPUStatus_V)

\* ------------------------------------------------------------------ C27
\* C27: building and formatting a Trace of the instruction at pc changes
\* nothing: the PPU (status, w, v, read buffer, internal data bus) is after
\* the trace what it was before, also when the trace reads in $2000-$3FFF
\* (the CPU and work RAM are not assigned by the trace at all)
C27_TraceNoSideEffect ==
    last.kind = "trace" => ppu = last.before

\* ------------------------------------------------------------------ C28
\* the read-modify-write mnemonics
RmwMnemonics ==
    {"ASL", "LSR", "ROL", "ROR", "INC", "DEC", "DCP", "ISB", "SLO", "RLA", "SRE", "RRA"}

\* the address the instruction that ran operates on, from its operand bytes,
\* the index registers and the memory before it
RanTarget ==
    LET b    == last.before
        mode == RanOp.addressing_mode
        abs  == RanLo + 256 * RanHi
        ptr(q) == mem_at(b.bus, q)
                    + 256 * mem_at(b.bus, (q \div 256) * 256 + ((q + 1) % 256))
    IN  IF mode = "ZeroPage" THEN RanLo
        ELSE IF mode = "ZeroPageX" THEN (RanLo + b.x) % 256
        ELSE IF mode = "ZeroPageY" THEN (RanLo + b.y) % 256
        ELSE IF mode = "Absolute" THEN abs
        ELSE IF mode = "AbsoluteX" THEN (abs + b.x) % 65536
        ELSE IF mode = "AbsoluteY" THEN (abs + b.y) % 65536
        ELSE IF mode = "IndexedIndirect" THEN ptr((RanLo + b.x) % 256)
        ELSE (ptr(RanLo) + b.y) % 65536

RanRmw == Ran /\ RanOp.mnemonic \in RmwMnemonics /\ RanOp.addressing_mode # "Accumulator"

\* C28: one execution of a read-modify-write opcode (ASL, LSR, ROL, ROR on
\* memory, INC, DEC, DCP, ISB, SLO, RLA, SRE, RRA) performs exactly one bus
\* write, to the target address, and before that write exactly one read of
\* the target address
C28_ReadModifyWrite ==
    RanRmw
    => /\ Len(cpu.log) = 1
       /\ cpu.log[1][1] = RanTarget
       /\ Cardinality({i \in DOMAIN cpu.reads : cpu.reads[i] = <<RanTarget, 0>>}) = 1

\* RRA (zp),Y has run: its target read once, written once, and read again by
\* the addition that follows
C28_Witness ==
    /\ RanRmw /\ RanOp.mnemonic = "RRA" /\ RanOp.addressing_mode = "IndirectIndexed"
    /\ cpu.log[1][1] = RanTarget
    /\ cpu.reads[Len(cpu.reads)] = <<RanTarget, 1>>

\* ------------------------------------------------------------------ C29
RanIndexedAbsolute == Ran /\ RanOp.addressing_mode \in {"AbsoluteX", "AbsoluteY"}

\* base + index leaves the page of the base
RanCrossed ==
    RanLo + (IF RanOp.addressing_mode = "AbsoluteX" THEN last.before.x
             ELSE last.before.y) > 255

\* C29: in Absolute,X and Absolute,Y a read-only instruction takes one extra
\* cycle exactly when base + index crosses a page (4 cycles, 5 when crossed),
\* and a write or read-modify-write instruction (STA, INC, DEC, ASL, LSR, ROL,
\* ROR, DCP, ISB, SLO, RLA, SRE, RRA) takes it always (STA 5 cycles, the
\* others 7)
C29_IndexedPenalty ==
    RanIndexedAbsolute
    => LET spent == cpu.cycles - last.before.cycles
           m     == RanOp.mnemonic
       IN  IF m \in {"LDA", "LDX", "LDY", "AND", "EOR", "ORA", "ADC", "SBC", "CMP",
                     "NOP", "LAX"}
           THEN spent = 3 + (IF RanCrossed THEN 1 ELSE 0) + 1
           ELSE IF m = "STA" THEN spent = 3 + 1 + 1
           ELSE m \in RmwMnemonics /\ spent = 3 + 1 + 3

\* STA abs,X or abs,Y within the page has taken 5 cycles
C29_Witness ==
    /\ RanIndexedAbsolute /\ RanOp.mnemonic = "STA" /\ ~RanCrossed
    /\ cpu.cycles = last.before.cycles + 5

\* ------------------------------------------------------------------ C25
\* C25: PPU::step is total: from every PPU state it returns, and the sprite
\* evaluation it runs stays within the 32 bytes of secondary OAM
C25_StepTotal ==
    last.kind = "step"
    => /\ ~last.panicked
       /\ DOMAIN ppu.secondary_oam = 0..31

\* ------------------------------------------------------------------ C26
\* C26: a PPUDATA read at v = a below $3F00 returns the read buffer as it was
\* and loads the buffer with VRAM[a]; at a in the palette range it returns
\* the palette byte at once; and every PPUDATA read or write moves v on by 32
\* when PPUCTRL bit 2 is set and by 1 otherwise.  In particular so after two
\* PPUADDR writes have set v = a.
C26_DataPort ==
    last.addr = PPUDATA
    => LET b     == last.before
           stepv == IF (b.controller \div 4) % 2 = 1 THEN 32 ELSE 1
       IN  /\ ppu.v = (b.v + stepv) % 65536
           /\ last.kind = "read" /\ b.v < 16128
              => last.result = b.data /\ ppu.data = PPUBus_read(b.bus, b.v)
           /\ last.kind = "read" /\ 16128 <= b.v /\ b.v <= 16383
              => LET i == IF (b.v % 32) % 4 = 0 THEN 16 + ((b.v % 32) % 16)
                               ELSE b.v % 32
                 IN  last.result = IF i \in DOMAIN b.bus.pallete_ram_idx
                                   THEN b.bus.pallete_ram_idx[i] ELSE 0
           /\ last.kind = "write" /\ b.v <= 16383
              => PPUBus_read(ppu.bus, b.v) = last.value

\* two PPUADDR writes set v = $2323 and the PPUDATA read that followed
\* returned the buffer as it was, loaded it with VRAM[$2323] and moved v by 32
C26_Witness ==
    /\ last.kind = "read" /\ last.addr = PPUDATA /\ last.addrs = 2
    /\ last.before.v = 8995 /\ last.result = 0 /\ ppu.data = 17
    /\ ppu.v = 8995 + 32

\* ------------------------------------------------------------------ C30
\* C30: the write toggle w is shared by PPUSCROLL and PPUADDR: w is the
\* parity of the number of PPUSCROLL and PPUADDR writes since the last
\* PPUSTATUS read (or since the start), and writes to PPUCTRL, PPUMASK,
\* OAMADDR, OAMDATA and PPUDATA, like PPUDATA reads, leave w as it was
C30_WriteToggle ==
    /\ ppu.write_toggle = (last.writes % 2 = 1)
    /\ last.kind # "none" /\ last.addr \notin {PPUSCROLL, PPUADDR, PPUSTATUS}
       => ppu.write_toggle = last.before.write_toggle

\* a PPUSCROLL write followed by a PPUADDR write brought w back to 0
C30_Witness ==
    /\ last.kind = "write" /\ last.addr = PPUADDR /\ last.writes = 2
    /\ last.before.write_toggle /\ ~ppu.write_toggle
    /\ last.addrs = 1

\* ------------------------------------------------------------------ C31
\* C31: a first PPUADDR write of d (w = 0) sets bits 13..8 of t to d & $3F,
\* clears bit 14 of t, and leaves bits 7..0 of t and v as they were; the
\* second write sets bits 7..0 of t to d and copies t into v; after the pair
\* v = t = ((d1 & $3F) << 8) | d2
C31_AddressWrites ==
    last.kind = "write" /\ last.addr = PPUADDR
    => LET b == last.before
           d == last.value
       IN  IF ~b.write_toggle
           THEN /\ (ppu.t \div 256) % 64 = d % 64
                /\ (ppu.t \div 16384) % 2 = 0
                /\ ppu.t % 256 = b.t % 256
                /\ ppu.v = b.v
           ELSE /\ ppu.t % 256 = d
                /\ ppu.t \div 256 = b.t \div 256
                /\ ppu.v = ppu.t
                /\ last.addrs >= 2
                   => ppu.v = (last.prev % 64) * 256 + d

\* ------------------------------------------------------------------ C33
\* C33: OAMADDR stays within 0..255: an OAMDATA write stores the byte at
\* primary_oam[OAMADDR] and sets OAMADDR to (OAMADDR + 1) mod 256, so a write
\* at OAMADDR = $FF wraps to 0
C33_OamAddrWraps ==
    /\ ppu.object_attribute_memory_address \in 0..255
    /\ last.kind = "write" /\ last.addr = OAMDATA
       => /\ oam_at(ppu, last.before.object_attribute_memory_address) = last.value
          /\ ppu.object_attribute_memory_address
               = (last.before.object_attribute_memory_address + 1) % 256

\* ------------------------------------------------------------------ C34
\* the cell of the 2 KiB an address of $2000-$2FFF names under a mirroring:
\* the nametable group (tables 0, 2 and 1, 3 when vertical; 0, 1 and 2, 3 when
\* horizontal) and the offset in the table
NameTableCell(mirroring, addr) ==
    LET n == (addr - 8192) \div 1024
    IN  <<IF mirroring = "Vertical" THEN n % 2 ELSE n \div 2, addr % 1024>>

\* C34: a write to a nametable address is read back at every address of the
\* same cell under the cartridge's mirroring ($2000+k = $2800+k and
\* $2400+k = $2C00+k when vertical, $2000+k = $2400+k and $2800+k = $2C00+k
\* when horizontal) and leaves the value read at every other address, of the
\* other group or of another offset k, unchanged
C34_NameTableMirroring ==
    last.kind = "write"
    => \A b \in NameTableAddrs :
        PPUBus_read(ppu.bus, b)
          = IF NameTableCell(ppu.bus.mirroring, b)
                 = NameTableCell(ppu.bus.mirroring, last.addr)
            THEN last.value
            ELSE PPUBus_read(last.before.bus, b)

\* ------------------------------------------------------------------ C35
\* C35: the PPU::step at dot 256 of a picture line with rendering enabled
\* increments Y in v: fine Y < 7 goes up by one and nothing else changes;
\* fine Y = 7 becomes 0 and coarse Y goes up by one, except that coarse Y 29
\* becomes 0 and toggles bit $0800, and coarse Y 31 becomes 0 without a
\* toggle; coarse X and bit $0400 never change
C35_IncrementY ==
    LET b == last.before
        fine_y   == (b.v \div 4096) % 8
        coarse_y == (b.v \div 32) % 32
    IN  (last.kind = "step" /\ b.dot = 256 /\ step_arm(b.line) = "render"
         /\ rendering_enabled(b))
        => ppu.v = IF fine_y < 7 THEN b.v + 4096
                   ELSE IF coarse_y = 29
                   THEN BitXor(b.v - 7 * 4096 - 29 * 32, 2048)
                   ELSE IF coarse_y = 31 THEN b.v - 7 * 4096 - 31 * 32
                   ELSE b.v - 7 * 4096 + 32

\* ------------------------------------------------------------------ C36
\* C36: on the pre-render line (261) with rendering enabled, after each
\* PPU::step at a dot of 280..=304 the vertical bits of v are those of t
\* (v & $7BE0 = t & $7BE0) and the other bits of v are as before the step
C36_CopyVertical ==
    LET b == last.before
    IN  (last.kind = "step" /\ b.line = 261 /\ b.dot \in 280..304
         /\ rendering_enabled(b))
        => /\ BitAnd(ppu.v, 31712) = BitAnd(ppu.t, 31712)
           /\ BitAnd(ppu.v, BitNot16(31712)) = BitAnd(b.v, BitNot16(31712))

\* ------------------------------------------------------------------ C32
\* C32: v and t are 15-bit values (below $8000) in every state reached by
\* PPUCTRL, PPUSCROLL and PPUADDR writes, PPUDATA reads and writes, and
\* PPU steps
C32_FifteenBits ==
    ppu.v < 32768 /\ ppu.t < 32768

\* ------------------------------------------------------------------ C37
\* C37: with PPUMASK.BACKGROUND set, the background pixel of column x is the
\* disabled pixel (enabled = false, colour 0) exactly when x < 8 and
\* PPUMASK.BACKGROUND_LEFT is clear; in every other case, the leftmost 8
\* columns with BACKGROUND_LEFT set among them, it is the pixel the tile
\* shifters show
C37_LeftColumns ==
    LET b     == last.before
        pix   == pixel_pallete(b.tile, b.fine_x)
        shown == [enabled |-> pix[1] # 0,
                  color |-> PPUBus_read(b.bus, pix[2] * 4 + pix[1] + 16128)]
    IN  (last.kind = "step" /\ step_arm(b.line) = "render"
         /\ is_set(b.mask, Mask_BACKGROUND) /\ last.x < WIDTH)
        => last.bg = IF last.x < 8 /\ ~is_set(b.mask, Mask_BACKGROUND_LEFT)
                     THEN [enabled |-> FALSE, color |-> 0]
                     ELSE shown

\* ------------------------------------------------------------------ C39
\* C39: a PPU::step sets SPRITE_ZERO_HIT only if at that dot primary OAM
\* entry 0 is in range on the current line, the sprite pixel and the
\* background pixel at the x of the dot are both non-zero, the x of entry 0
\* is not 255, the x of the dot is below 255, and PPUMASK enables both the
\* background and the sprite layer
C39_SpriteZeroHit ==
    LET b    == last.before
        size == IF is_set(b.controller, Controller_SPRITE_SIZE) THEN 16 ELSE 8
    IN  (/\ last.kind = "step"
         /\ ~is_set(b.status, Status_SPRITE_ZERO_HIT)
         /\ is_set(ppu.status, Status_SPRITE_ZERO_HIT))
        => /\ (b.line - oam_at(b, 0)) % 65536 < size
           /\ last.sprite.enabled /\ last.bg.enabled
           /\ oam_at(b, 3) # 255
           /\ last.x < 255
           /\ is_set(b.mask, Mask_BACKGROUND) /\ is_set(b.mask, Mask_SPRITE)

\* ------------------------------------------------------------------ C38
\* C38: after the sprite evaluation of a visible line, secondary OAM holds
\* the first min(k, 8) of the k sprites in range on the line, in primary-OAM
\* order, as consecutive 4-byte entries, every byte after them being $FF;
\* the evaluation sets SPRITE_OVERFLOW if and only if k >= 9
C38_SecondaryOam ==
    LET b       == last.before
        size    == IF is_set(b.controller, Controller_SPRITE_SIZE) THEN 16 ELSE 8
        InRange == {i \in 0..(SPRITE_COUNT - 1) :
                       (b.line - oam_at(b, 4 * i)) % 65536 < size}
        k       == Cardinality(InRange)
        nth_in_range(s) ==
            CHOOSE i \in InRange : Cardinality({j \in InRange : j < i}) = s
    IN  (last.kind = "step" /\ ~last.panicked /\ b.dot = 0
         /\ step_arm(b.line) = "render" /\ rendering_enabled(b))
        => /\ ppu.secondary_oam =
                  [a \in 0..31 |->
                      IF a \div 4 < k
                      THEN oam_at(b, 4 * nth_in_range(a \div 4) + (a % 4))
                      ELSE 255]
           /\ is_set(ppu.status, Status_SPRITE_OVERFLOW)
                  <=> (is_set(b.status, Status_SPRITE_OVERFLOW) \/ k >= 9)

\* ------------------------------------------------------------------ C40
\* C40: a JSR at address p with target t, from any stack pointer S, writes
\* the high byte of p + 2 at $0100 + S and then its low byte at
\* $0100 + (S - 1), leaves S - 2, sets PC = t and takes 6 cycles; an RTS run
\* next, on the stack as the JSR left it, sets PC = p + 3, brings S back to
\* its value before the JSR and takes 6 cycles
C40_JsrRts ==
    /\ (last.kind = "step" /\ last.mnemonic = "JSR")
       => LET b   == last.before
              ret == (b.pc + 2) % 65536
          IN  /\ cpu.log = << <<256 + b.s, ret \div 256>>,
                              <<256 + ((b.s - 1) % 256), ret % 256>> >>
              /\ cpu.s = (b.s - 2) % 256
              /\ cpu.pc = mem_at(b.bus, (b.pc + 1) % 65536)
                          + 256 * mem_at(b.bus, (b.pc + 2) % 65536)
              /\ cpu.cycles = b.cycles + 6
    /\ (/\ last.kind = "step" /\ last.mnemonic = "RTS"
        /\ last.prev.kind = "step" /\ last.prev.mnemonic = "JSR")
       => /\ cpu.pc = (last.prev.before.pc + 3) % 65536
          /\ cpu.s = last.prev.before.s
          /\ cpu.cycles = last.before.cycles + 6

\* an RTS has returned from a JSR placed at $FFFD and run with S = 0, the
\* pushes wrapping from $0100 to $01FF and the return address from $FFFF to 0
C40_Witness ==
    /\ last.kind = "step" /\ last.mnemonic = "RTS"
    /\ last.prev.kind = "step" /\ last.prev.mnemonic = "JSR"
    /\ last.prev.before.pc = 65533 /\ last.prev.before.s = 0
    /\ cpu.pc = 0 /\ cpu.s = 0

====
